---- MODULE Spec2Model ----
(***************************************************************************)
(* A model of the cian-parse-page scraping pipeline: the merge engine      *)
(* (utils/merge_data.py), the thread-based scrape worker with its proxy    *)
(* switch and page pool (scraper/thread_scraper.py), the retry loop        *)
(* (scraper/run.py), an orchestrator invocation of either strategy         *)
(* (scraper/scraper_core.py, thread_scraper.py, process_scraper.py), the   *)
(* pipeline (cian.py parse_data), the shared counters (log_with_lock),     *)
(* deep_merge on one listing, and one worker process                       *)
(* (scraper/process_scraper.py).                                           *)
(***************************************************************************)
EXTENDS Integers, Sequences, FiniteSets, TLC

VARIABLES
    \* ---- merge engine (utils/merge_data.py, cian.py merge_and_validate)
    target_data,     \* the persisted listings, a sequence of dicts
    source_data,     \* the source batch of the last merge
    original_data,   \* the target as it was before the last merge
    merge_op,        \* "none", "merge" (a batch was merged), "again" (the same batch was merged once more)
    n_merges,        \* number of source batches merged so far
    \* ---- one scrape worker (scraper/thread_scraper.py, _scrape_worker)
    urls_batch,      \* task.urls_batch
    vpn_manager,     \* whether task.vpn_manager is set
    concurrent_limit,\* task.config.concurrent_limit
    semaphore,       \* free slots of the worker's semaphore
    available,       \* pages in PagePool.available
    context_proxy,   \* the proxy the worker's browser context was created with
    proxy_config,    \* task.proxy_config
    consecutive_network_errors,
    counters,        \* the shared counters start, success, error
    pc,              \* where each per-URL task stands
    result,          \* the record each per-URL task has built
    running,         \* the task that holds the event loop, 0 when none does
    worker_pc,       \* "running", "returned" or "raised"
    results,         \* what the worker returned
    calls,           \* calls made to the provider: refresh and get_proxy
    crossings,       \* times the error count reached the threshold
    handled,         \* the last error handling since a success: what it did
    fetch_proxy,     \* for each task at work, the proxies in force when its fetch started
    \* ---- the retry loop (scraper/run.py, run_scrapper)
    urls_to_scrape,
    max_retry_attempts,
    num_processes,
    vpn_mgr,         \* whether run_scrapper has a VPN manager
    remaining_urls,
    successful,
    failed,
    attempt,         \* the loop variable i
    run_pc,          \* "loop", "returned" or "raised"
    rounds,          \* calls of scrape_all so far
    only_network,    \* every round so far ran its fetches and each failed with a network error
    round_fault,     \* the fault scrape_all raised with, "none" when it has not
    last_fetched,    \* the records of the last round that ran, as classified
    \* ---- one orchestrator invocation (scraper_core.py scrape_all, execute_tasks)
    url_list,        \* urls, the list scrape_all is called with
    config_num_processes,
    strategy,        \* "thread" or "process"
    url_chunks,      \* the batches
    orch_pc,         \* where the invocation stands
    orch_error,      \* the exception the invocation raised, "none" when it has not
    owners,          \* for each owner of a browser: its playwright, browser, contexts
    workers,         \* where each worker stands
    \* ---- the pipeline (cian.py parse_data)
    json_file,       \* the dataset persisted at json_file_path
    existing_listings, \* the dataset as parse_data loaded it
    merged_data,
    missing_offer_ids, \* the active listings the search did not show
    listings_to_scrape, \* the offer_ids whose pages phase 5 scrapes
    parse_pc,        \* "search_merge", "listing_pages", "save", "returned" or "raised"
    merges,          \* calls of merge_data so far
    validated,       \* calls of validate_merge that returned
    save_calls,      \* calls of save_json_file so far
    \* ---- the shared counters (scraper_core.py log_with_lock)
    counter_value,   \* counters[status].value
    counter_lock,    \* the worker that holds counters[status].get_lock(), 0 when free
    log_pc,          \* where each worker stands in log_with_lock
    log_status,      \* the status each worker logs
    log_read,        \* the value each worker read for its += 1
    log_calls,       \* calls of log_with_lock each worker has made
    increments,      \* for each status, the += 1 performed so far
    \* ---- one listing under deep_merge (utils/merge_data.py)
    existing_record, \* the listing of the target, existing in deep_merge
    new_record,      \* the source record merged last, {} before the first
    deep_merges,     \* calls of deep_merge on the listing so far
    \* ---- one worker process (scraper/process_scraper.py, _scrape_batch)
    proc_urls,       \* self.task.urls_batch
    proc_vpn_manager, \* whether self.task.vpn_manager is set
    proc_semaphore,  \* free slots of the process's semaphore
    proxy_state,     \* consecutive_errors, and the generation of the contexts
    proc_pc,         \* where each scrape_with_proxy_switching task stands
    proc_result,     \* the record each task holds
    proc_calls,      \* calls made to the provider: refresh and get_proxy
    proc_streak,     \* network-failed fetches ended since a fetch ended otherwise
    batch_pc         \* "running" or "returned"

mvars == <<target_data, source_data, original_data, merge_op, n_merges>>

wvars == <<urls_batch, vpn_manager, concurrent_limit, semaphore, available,
           context_proxy, proxy_config, consecutive_network_errors, counters,
           pc, result, running, worker_pc, results, calls, crossings, handled,
           fetch_proxy>>

rvars == <<urls_to_scrape, max_retry_attempts, num_processes, vpn_mgr,
           remaining_urls, successful, failed, attempt, run_pc, rounds,
           only_network, round_fault, last_fetched>>

ovars == <<url_list, config_num_processes, strategy, url_chunks, orch_pc,
           orch_error, owners, workers>>

pvars == <<json_file, existing_listings, merged_data, missing_offer_ids,
           listings_to_scrape, parse_pc, merges, validated, save_calls>>

cvars == <<counter_value, counter_lock, log_pc, log_status, log_read,
           log_calls, increments>>

dvars == <<existing_record, new_record, deep_merges>>

xvars == <<proc_urls, proc_vpn_manager, proc_semaphore, proxy_state, proc_pc,
           proc_result, proc_calls, proc_streak, batch_pc>>

vars == <<mvars, wvars, rvars, ovars, pvars, cvars, dvars, xvars>>

\* what a step of the merge, of a worker, of the retry loop leaves alone
not_merge == <<wvars, rvars, ovars, pvars, cvars, dvars, xvars>>

not_worker == <<mvars, rvars, ovars, pvars, cvars, dvars, xvars>>

not_retry == <<mvars, wvars, ovars, pvars, cvars, dvars, xvars>>

not_orchestrator == <<mvars, wvars, rvars, pvars, cvars, dvars, xvars>>

not_pipeline == <<mvars, wvars, rvars, ovars, cvars, dvars, xvars>>

not_counters == <<mvars, wvars, rvars, ovars, pvars, dvars, xvars>>

not_deep_merge == <<mvars, wvars, rvars, ovars, pvars, cvars, xvars>>

not_process == <<mvars, wvars, rvars, ovars, pvars, cvars, dvars>>

\* proxy_config None: no proxy, a direct connection
Direct == "direct"

\* a per-URL task that has not built its record yet
NoResult == [url |-> "", status |-> "none", error |-> <<>>, proxy_switched |-> FALSE]

\* a fetch that has not started: no context, no proxy
NoFetch == [context |-> Direct, config |-> Direct, after_switch |-> FALSE]

\* no error handled yet
NoHandling ==
    [streak |-> 0, nth |-> 0, refresh |-> 0, get_proxy |-> 0,
     counter_after |-> 0, ended |-> FALSE]

\* no merge is running, nothing is persisted
MergeIdle ==
    /\ target_data = <<>>
    /\ source_data = <<>>
    /\ original_data = <<>>
    /\ merge_op = "none"
    /\ n_merges = 0

\* no worker is running
WorkerIdle ==
    /\ urls_batch = <<>>
    /\ vpn_manager = FALSE
    /\ concurrent_limit = 0
    /\ semaphore = 0
    /\ available = 0
    /\ context_proxy = Direct
    /\ proxy_config = Direct
    /\ consecutive_network_errors = 0
    /\ counters = [start |-> 0, success |-> 0, error |-> 0]
    /\ pc = <<>>
    /\ result = <<>>
    /\ running = 0
    /\ worker_pc = "idle"
    /\ results = <<>>
    /\ calls = [refresh |-> 0, get_proxy |-> 0]
    /\ crossings = 0
    /\ handled = NoHandling
    /\ fetch_proxy = <<>>

\* run_scrapper is not running
RetryIdle ==
    /\ urls_to_scrape = <<>>
    /\ max_retry_attempts = 0
    /\ num_processes = 0
    /\ vpn_mgr = FALSE
    /\ remaining_urls = <<>>
    /\ successful = <<>>
    /\ failed = <<>>
    /\ attempt = 0
    /\ run_pc = "idle"
    /\ rounds = 0
    /\ only_network = TRUE
    /\ round_fault = "none"
    /\ last_fetched = <<>>

\* an owner that has started nothing
NoOwner == [playwright |-> "none", browser |-> "none", contexts |-> <<>>]

\* no orchestrator invocation is running
OrchestratorIdle ==
    /\ url_list = <<>>
    /\ config_num_processes = 0
    /\ strategy = "none"
    /\ url_chunks = <<>>
    /\ orch_pc = "idle"
    /\ orch_error = "none"
    /\ owners = <<>>
    /\ workers = <<>>

\* parse_data is not running
PipelineIdle ==
    /\ json_file = <<>>
    /\ existing_listings = <<>>
    /\ merged_data = <<>>
    /\ missing_offer_ids = {}
    /\ listings_to_scrape = {}
    /\ parse_pc = "idle"
    /\ merges = 0
    /\ validated = 0
    /\ save_calls = 0

\* the statuses log_with_lock counts
Statuses == {"start", "success", "error"}

\* no worker logs
CountersIdle ==
    /\ counter_value = [status \in Statuses |-> 0]
    /\ counter_lock = [status \in Statuses |-> 0]
    /\ log_pc = <<>>
    /\ log_status = <<>>
    /\ log_read = <<>>
    /\ log_calls = <<>>
    /\ increments = [status \in Statuses |-> 0]

\* no listing is under deep_merge
DeepMergeIdle ==
    /\ existing_record = <<>>
    /\ new_record = <<>>
    /\ deep_merges = 0

\* no worker process runs
ProcessIdle ==
    /\ proc_urls = <<>>
    /\ proc_vpn_manager = FALSE
    /\ proc_semaphore = 0
    /\ proxy_state = [consecutive_errors |-> 0, contexts |-> 0]
    /\ proc_pc = <<>>
    /\ proc_result = <<>>
    /\ proc_calls = [refresh |-> 0, get_proxy |-> 0]
    /\ proc_streak = 0
    /\ batch_pc = "running"

(***************************************************************************)
(* Python values.  A value is a record tagged with its Python type; a      *)
(* number is kept as twice its value (n2), so that the .5 floats that      *)
(* parse_value can produce are integers of the model.  A dict is a         *)
(* function from its keys to values, and a key is present iff it is in     *)
(* the function's DOMAIN.                                                  *)
(***************************************************************************)
None == [t |-> "None"]
PyBool(b) == [t |-> "bool", b |-> b]
PyInt(n) == [t |-> "int", n2 |-> 2 * n]
PyFloat(n2) == [t |-> "float", n2 |-> n2]
Str(s) == [t |-> "str", s |-> s]
Dict(d) == [t |-> "dict", d |-> d]
List(l) == [t |-> "list", l |-> l]

EmptyDict == [k \in {} |-> None]

\* isinstance(v, dict)
IsDict(v) == v.t = "dict"

\* isinstance(v, (int, float))
IsNumber(v) == v.t \in {"int", "float"}

\* d.get(key): the value, or None when the key is absent
Get(d, key) == IF key \in DOMAIN d THEN d[key] ELSE None

\* d[key] = value
Put(d, key, value) == [k \in DOMAIN d \cup {key} |-> IF k = key THEN value ELSE d[k]]

\* d.pop(key, None)
Pop(d, key) == [k \in DOMAIN d \ {key} |-> d[k]]

\* Python truthiness: `if v:`
Truthy(v) ==
    CASE v.t = "None" -> FALSE
      [] v.t = "bool" -> v.b
      [] v.t \in {"int", "float"} -> v.n2 # 0
      [] v.t = "str" -> v.s # ""
      [] v.t = "dict" -> DOMAIN v.d # {}
      [] v.t = "list" -> Len(v.l) > 0

\* `v is True`, `v is False`
IsTrue(v) == v.t = "bool" /\ v.b
IsFalse(v) == v.t = "bool" /\ ~v.b

\* a != b on numbers: Python compares int and float by value
NumNotEqual(a, b) == a.n2 # b.n2

\* int(v) on a number: truncation toward zero
IntOf(v) ==
    IF v.n2 >= 0 THEN v.n2 \div 2 ELSE 0 - ((0 - v.n2) \div 2)

\* str(n) of a Python int n
StrOfInt(n) == ToString(n)

\* str(v) of a number: "1200" for an int, "1200.0" or "1200.5" for a float
StrOfNumber(v) ==
    IF v.t = "int"
    THEN Str(StrOfInt(IntOf(v)))
    ELSE LET a == IF v.n2 >= 0 THEN v.n2 ELSE 0 - v.n2
             sign == IF v.n2 >= 0 THEN "" ELSE "-"
         IN Str(sign \o ToString(a \div 2) \o "." \o (IF a % 2 = 1 THEN "5" ELSE "0"))

(***************************************************************************)
(* merge_data.deep_merge                                                   *)
(***************************************************************************)

\* lines 7-9: updated_date read from new["metadata"], None when absent
UpdatedDateOf(new) ==
    IF "metadata" \in DOMAIN new /\ IsDict(new["metadata"])
    THEN Get(new["metadata"].d, "updated_date")
    ELSE None

\* case 2 without its test of the existing record: fires for every
\* unpublished source record
IsUnpublishTransition_IgnoresExisting(existing, new) ==
    /\ "metadata" \in DOMAIN new
    /\ IsTrue(Get(new["metadata"].d, "is_unpublished"))

\* lines 22-26: case 2, is_unpublished goes from False to True
IsUnpublishTransition(existing, new) ==
    /\ "metadata" \in DOMAIN new
    /\ IsTrue(Get(new["metadata"].d, "is_unpublished"))
    /\ IsFalse(Get(existing["metadata"].d, "is_unpublished"))

\* case 3 without the comparison of the two prices
IsPriceChange_NoComparison(existing, new) ==
    /\ "offer_price" \in DOMAIN new
    /\ "offer_price" \in DOMAIN existing
    /\ IsNumber(new["offer_price"])
    /\ IsNumber(existing["offer_price"])

\* case 3 with isinstance(..., int) in place of isinstance(..., (int, float))
IsPriceChange_IntOnly(existing, new) ==
    /\ "offer_price" \in DOMAIN new
    /\ "offer_price" \in DOMAIN existing
    /\ new["offer_price"].t = "int"
    /\ existing["offer_price"].t = "int"
    /\ NumNotEqual(new["offer_price"], existing["offer_price"])

\* lines 30-36: case 3, both prices numeric and different
IsPriceChange(existing, new) ==
    /\ "offer_price" \in DOMAIN new
    /\ "offer_price" \in DOMAIN existing
    /\ IsNumber(new["offer_price"])
    /\ IsNumber(existing["offer_price"])
    /\ NumNotEqual(new["offer_price"], existing["offer_price"])

\* the difference with its operands exchanged
PriceDiff_Reversed(newPrice, oldPrice) == IntOf(oldPrice) - IntOf(newPrice)

\* line 43: price_diff = int(new) - int(existing)
PriceDiff(newPrice, oldPrice) == IntOf(newPrice) - IntOf(oldPrice)

\* lines 43-49: the price_changes entry
PriceChangeEntry(newPrice, oldPrice, updated_date) ==
    Dict([change |-> Str(StrOfInt(PriceDiff(newPrice, oldPrice))),
          current_price |-> StrOfNumber(newPrice),
          previous_price |-> StrOfNumber(oldPrice),
          date |-> updated_date])

\* the special cases as independent ifs: the price change is looked at after
\* the unpublish transition was applied
SpecialCases_Cumulative(existing, new, is_new_offer) ==
    LET updated_date == UpdatedDateOf(new) IN
    IF ~Truthy(updated_date) THEN existing
    ELSE
      LET e1 == IF "metadata" \in DOMAIN existing THEN existing
                ELSE Put(existing, "metadata", Dict(EmptyDict))
          e2 == IF is_new_offer
                THEN Put(e1, "metadata",
                         Dict(Put(e1["metadata"].d, "publication_date", updated_date)))
                ELSE IF IsUnpublishTransition(e1, new)
                THEN Put(e1, "metadata",
                         Dict(Put(e1["metadata"].d, "unpublished_date", updated_date)))
                ELSE e1
          e3 == IF ~is_new_offer /\ IsPriceChange(e2, new)
                THEN LET old == IF "price_changes" \in DOMAIN e2
                                THEN e2["price_changes"].l ELSE <<>>
                     IN Put(e2, "price_changes",
                            List(Append(old, PriceChangeEntry(new["offer_price"],
                                                              e2["offer_price"],
                                                              updated_date))))
                ELSE e2
      IN Put(e3, "metadata", Dict(Put(e3["metadata"].d, "last_active", updated_date)))

\* lines 12-53: the special cases, applied when updated_date is truthy
SpecialCases(existing, new, is_new_offer) ==
    LET updated_date == UpdatedDateOf(new) IN
    IF ~Truthy(updated_date) THEN existing
    ELSE
      LET e1 == IF "metadata" \in DOMAIN existing THEN existing
                ELSE Put(existing, "metadata", Dict(EmptyDict))
          e2 == IF is_new_offer
                THEN Put(e1, "metadata",
                         Dict(Put(e1["metadata"].d, "publication_date", updated_date)))
                ELSE IF IsUnpublishTransition(e1, new)
                THEN Put(e1, "metadata",
                         Dict(Put(e1["metadata"].d, "unpublished_date", updated_date)))
                ELSE IF IsPriceChange(e1, new)
                THEN LET old == IF "price_changes" \in DOMAIN e1
                                THEN e1["price_changes"].l ELSE <<>>
                     IN Put(e1, "price_changes",
                            List(Append(old, PriceChangeEntry(new["offer_price"],
                                                              e1["offer_price"],
                                                              updated_date))))
                ELSE e1
      IN Put(e2, "metadata", Dict(Put(e2["metadata"].d, "last_active", updated_date)))

\* lines 81-93: the scalar fields the loop leaves alone
SkipsField(new, key) ==
    \/ key = "timestamp"
    \/ new[key] = None
    \/ /\ key = "description"
       /\ "metadata" \in DOMAIN new
       /\ IsTrue(Get(new["metadata"].d, "is_unpublished"))

RECURSIVE deep_merge(_, _, _)

\* a metadata loop that copies every key of the source
StrippedMetadataKeys_NoKey == {}

\* line 64: the metadata keys the loop leaves out
StrippedMetadataKeys == {"updated_date"}

\* lines 63-72: the metadata keys, updated_date excluded
MergeMetadata(em, nm) ==
    LET keys == DOMAIN nm \ StrippedMetadataKeys IN
    [k \in DOMAIN em \cup keys |->
        IF k \notin keys THEN em[k]
        ELSE IF k \in DOMAIN em /\ IsDict(em[k]) /\ IsDict(nm[k])
        THEN Dict(deep_merge(em[k].d, nm[k].d, FALSE))
        ELSE nm[k]]

\* lines 56-95: the field loop
FieldLoop(existing, new) ==
    LET meta == "metadata" \in DOMAIN new /\ IsDict(new["metadata"])
        e1 == IF meta /\ "metadata" \notin DOMAIN existing
              THEN Put(existing, "metadata", Dict(EmptyDict)) ELSE existing
        assigned == {x \in DOMAIN new : (x = "metadata" /\ IsDict(new[x])) \/ ~SkipsField(new, x)}
    IN [k \in DOMAIN e1 \cup assigned |->
          IF k \notin DOMAIN new THEN e1[k]
          ELSE IF k = "metadata" /\ IsDict(new[k])
          THEN Dict(MergeMetadata(e1[k].d, new[k].d))
          ELSE IF k \in DOMAIN e1 /\ IsDict(e1[k]) /\ IsDict(new[k])
          THEN Dict(deep_merge(e1[k].d, new[k].d, FALSE))
          ELSE IF SkipsField(new, k) THEN e1[k]
          ELSE new[k]]

\* lines 4-95
deep_merge(existing, new, is_new_offer) ==
    FieldLoop(SpecialCases(existing, new, is_new_offer), new)

(***************************************************************************)
(* merge_data.merge_data                                                   *)
(***************************************************************************)

\* line 98: target_by_id, a dict keyed by offer_id; a later listing with an
\* id already seen replaces the earlier value and keeps its position
RECURSIVE TargetById(_, _)
TargetById(target, n) ==
    IF n = 0 THEN <<>>
    ELSE LET prev == TargetById(target, n - 1)
             item == target[n]
             hit == {i \in 1..Len(prev) : prev[i]["offer_id"] = item["offer_id"]}
         IN IF hit = {} THEN Append(prev, item)
            ELSE [i \in 1..Len(prev) |-> IF i \in hit THEN item ELSE prev[i]]

\* the copy of a new item that keeps updated_date in its metadata
NewItem_KeepsUpdatedDate(item) ==
    IF /\ "metadata" \in DOMAIN item
       /\ IsDict(item["metadata"])
       /\ "updated_date" \in DOMAIN item["metadata"].d
    THEN LET m == item["metadata"].d
             updated_date == m["updated_date"]
         IN Put(item, "metadata",
                Dict(Put(Put(m, "publication_date", updated_date),
                         "last_active", updated_date)))
    ELSE item

\* lines 111-125: the copy of a new item, updated_date turned into the two dates
NewItem(item) ==
    IF /\ "metadata" \in DOMAIN item
       /\ IsDict(item["metadata"])
       /\ "updated_date" \in DOMAIN item["metadata"].d
    THEN LET m == item["metadata"].d
             updated_date == m["updated_date"]
         IN Put(item, "metadata",
                Dict(Pop(Put(Put(m, "publication_date", updated_date),
                             "last_active", updated_date),
                         "updated_date")))
    ELSE item

\* a source loop that appends every item without looking it up
MergeItem_AlwaysAppends(by_id, item) ==
    IF "offer_id" \notin DOMAIN item THEN by_id
    ELSE Append(by_id, NewItem(item))

\* lines 102-127: one source item merged into the index
MergeItem(by_id, item) ==
    IF "offer_id" \notin DOMAIN item THEN by_id
    ELSE LET hit == {i \in 1..Len(by_id) : by_id[i]["offer_id"] = item["offer_id"]}
         IN IF hit # {}
            THEN [i \in 1..Len(by_id) |->
                     IF i \in hit THEN deep_merge(by_id[i], item, FALSE) ELSE by_id[i]]
            ELSE Append(by_id, NewItem(item))

RECURSIVE MergeItems(_, _, _)
MergeItems(by_id, source, n) ==
    IF n = 0 THEN by_id
    ELSE MergeItem(MergeItems(by_id, source, n - 1), source[n])

\* lines 1-130
merge_data(target, source) ==
    MergeItems(TargetById(target, Len(target)), source, Len(source))

(***************************************************************************)
(* The merge engine as a state machine: the persisted listings, merged     *)
(* with source batches drawn from a bounded set of scraped records.        *)
(***************************************************************************)

\* number of source batches merged in a run
MaxMerges == 1
\* length of a source batch
MaxBatch == 2

\* a key that a record does not carry (a builder's argument, not a Python value)
Absent == [t |-> "absent"]

D0 == Str("2023-12-31 00:00:00")
D1 == Str("2024-01-01 00:00:00")
D2 == Str("2024-01-02 00:00:00")

\* a metadata dict with the given is_unpublished and updated_date
MkMetadata(unpub, date) ==
    [k \in (IF unpub = Absent THEN {} ELSE {"is_unpublished"})
           \cup (IF date = Absent THEN {} ELSE {"updated_date"}) |->
        IF k = "is_unpublished" THEN unpub ELSE date]

\* a scraped record: offer_id, metadata, and offer_price unless absent
MkRecord(id, price, unpub, date) ==
    [k \in {"offer_id", "metadata"} \cup (IF price = Absent THEN {} ELSE {"offer_price"}) |->
        IF k = "offer_id" THEN Str(id)
        ELSE IF k = "metadata" THEN Dict(MkMetadata(unpub, date))
        ELSE price]

\* normalize_listings, on the metadata the merge reads: unpublished_date is
\* cleared on an offer that is not unpublished
normalize_listings(offer) ==
    LET metadata == offer["metadata"].d
    IN IF ~Truthy(Get(metadata, "is_unpublished"))
       THEN Put(offer, "metadata", Dict(Put(metadata, "unpublished_date", Str(""))))
       ELSE offer

\* the records a scrape hands to the merge, normalized: published and
\* unpublished listings with int and float prices and two dates, a record
\* whose date could not be parsed (parse_russian_date gives None), and a
\* record that carries a price_changes list of its own
SourceRecords ==
    {normalize_listings(offer) : offer \in
        {MkRecord("1", PyInt(1200), PyBool(FALSE), D1),
         MkRecord("1", PyInt(1000), PyBool(FALSE), D2),
         MkRecord("1", PyFloat(2401), PyBool(FALSE), D1),
         MkRecord("1", PyInt(1200), PyBool(TRUE), D1),
         MkRecord("1", PyInt(1200), Absent, None),
         Put(MkRecord("1", Absent, PyBool(FALSE), D1), "price_changes", List(<<>>)),
         MkRecord("2", PyInt(1000), PyBool(FALSE), D1)}}

SourceBatches == UNION {[1..n -> SourceRecords] : n \in 0..MaxBatch}

\* a persisted listing
MkListing(id, price, unpub, unpub_date, changes) ==
    [offer_id |-> Str(id),
     offer_price |-> price,
     metadata |-> Dict([is_unpublished |-> unpub,
                        publication_date |-> D0,
                        last_active |-> D0,
                        unpublished_date |-> unpub_date]),
     price_changes |-> List(changes)]

\* the persisted datasets a run can start from: none, a listing as it was
\* first inserted, a published listing with a price history, and an
\* unpublished listing beside a published one
InitialTargets ==
    {<<>>,
     merge_data(<<>>, <<normalize_listings(MkRecord("1", PyInt(1000), PyBool(FALSE), D0))>>),
     <<MkListing("1", PyInt(1000), PyBool(FALSE), Str(""),
                 <<PriceChangeEntry(PyInt(1000), PyInt(1200), D0)>>)>>,
     <<MkListing("1", PyInt(1200), PyBool(TRUE), D0,
                 <<PriceChangeEntry(PyInt(1200), PyInt(1000), D0)>>),
       MkListing("2", PyInt(1000), PyBool(FALSE), Str(""), <<>>)>>}

MergeInit ==
    /\ target_data \in InitialTargets
    /\ source_data = <<>>
    /\ original_data = <<>>
    /\ merge_op = "none"
    /\ n_merges = 0
    /\ WorkerIdle
    /\ RetryIdle
    /\ OrchestratorIdle
    /\ PipelineIdle
    /\ CountersIdle
    /\ DeepMergeIdle
    /\ ProcessIdle

\* cian.py merge_and_validate: original_data is the copy of the target taken
\* before merge_data
MergeSource(batch) ==
    /\ n_merges < MaxMerges
    /\ merge_op # "again"
    /\ original_data' = target_data
    /\ source_data' = batch
    /\ target_data' = merge_data(target_data, batch)
    /\ merge_op' = "merge"
    /\ n_merges' = n_merges + 1
    /\ UNCHANGED not_merge

\* the same batch merged once more into the merged result, which ends the run
MergeAgain ==
    /\ merge_op = "merge"
    /\ original_data' = target_data
    /\ source_data' = source_data
    /\ target_data' = merge_data(target_data, source_data)
    /\ merge_op' = "again"
    /\ n_merges' = n_merges
    /\ UNCHANGED not_merge

MergeNext ==
    \/ \E batch \in SourceBatches : MergeSource(batch)
    \/ MergeAgain

SpecMerge == MergeInit /\ [][MergeNext]_vars

(***************************************************************************)
(* What the claims about the merge engine read off a state                 *)
(***************************************************************************)

\* the offer_ids of a list of records
OfferIdsOf(records) ==
    {records[i]["offer_id"] : i \in {j \in 1..Len(records) : "offer_id" \in DOMAIN records[j]}}

HasOffer(records, id) == id \in OfferIdsOf(records)

\* the record of a list with the given offer_id
OfferOf(records, id) ==
    records[CHOOSE i \in 1..Len(records) :
                "offer_id" \in DOMAIN records[i] /\ records[i]["offer_id"] = id]

\* the number of records of a batch with the given offer_id
Occurrences(records, id) ==
    Cardinality({i \in 1..Len(records) :
                    "offer_id" \in DOMAIN records[i] /\ records[i]["offer_id"] = id})

DistinctIds(records) == \A id \in OfferIdsOf(records) : Occurrences(records, id) = 1

MetadataOf(record) ==
    IF "metadata" \in DOMAIN record THEN record["metadata"].d ELSE EmptyDict

ChangesOf(record) ==
    IF "price_changes" \in DOMAIN record THEN record["price_changes"].l ELSE <<>>

\* the last merge applied exactly one source record to an existing listing
\* with this offer_id
UpdatedOnce(id) ==
    /\ merge_op \in {"merge", "again"}
    /\ Occurrences(source_data, id) = 1
    /\ HasOffer(original_data, id)

\* a - b on Python numbers: an int when both are ints, a float otherwise
PySub(a, b) ==
    IF a.t = "int" /\ b.t = "int"
    THEN [t |-> "int", n2 |-> a.n2 - b.n2]
    ELSE [t |-> "float", n2 |-> a.n2 - b.n2]

\* a non-empty date string
IsDate(v) == v.t = "str" /\ v.s # ""

(***************************************************************************)
(* C6: idempotence of merge_data                                           *)
(***************************************************************************)

\* C6 as stated: merging any batch S into merge(T, S) gives merge(T, S) again.
C6_IdempotentAnyBatch ==
    merge_op = "again" => target_data = original_data

\* C6 as amended: merging a batch S whose offer_ids are pairwise distinct
\* into merge(T, S) gives merge(T, S) again: no price_changes entry is
\* appended and no field changes.
C6_IdempotentDistinctIds ==
    (merge_op = "again" /\ DistinctIds(source_data)) => target_data = original_data

\* a batch of distinct ids whose first merge appended a price change (its
\* date and price are the last entry's) has been merged a second time
C6_Witness ==
    /\ merge_op = "again"
    /\ DistinctIds(source_data)
    /\ \E i \in 1..Len(source_data) :
        LET s == source_data[i]
            r == OfferOf(target_data, s["offer_id"])
        IN /\ ChangesOf(r) # <<>>
           /\ ChangesOf(r)[Len(ChangesOf(r))].d["date"] = UpdatedDateOf(s)
           /\ ChangesOf(r)[Len(ChangesOf(r))].d["current_price"] = StrOfNumber(s["offer_price"])

(***************************************************************************)
(* C7: merge into an empty target                                          *)
(***************************************************************************)

\* the inserted record of a source record that carried updated_date has both
\* dates equal to it and no updated_date left
InsertedWithDates(s, r) ==
    "updated_date" \in DOMAIN MetadataOf(s) =>
        /\ "publication_date" \in DOMAIN MetadataOf(r)
        /\ "last_active" \in DOMAIN MetadataOf(r)
        /\ MetadataOf(r)["publication_date"] = MetadataOf(s)["updated_date"]
        /\ MetadataOf(r)["last_active"] = MetadataOf(s)["updated_date"]
        /\ "updated_date" \notin DOMAIN MetadataOf(r)

C7_RoundTripBody ==
    /\ OfferIdsOf(target_data) = OfferIdsOf(source_data)
    /\ Len(target_data) = Cardinality(OfferIdsOf(source_data))
    /\ \A i \in 1..Len(source_data) :
          "offer_id" \in DOMAIN source_data[i] =>
              InsertedWithDates(source_data[i],
                                OfferOf(target_data, source_data[i]["offer_id"]))

RaisesPrice(s, e) ==
    /\ "offer_price" \in DOMAIN s /\ IsNumber(s["offer_price"])
    /\ "offer_price" \in DOMAIN e /\ IsNumber(e["offer_price"])
    /\ s["offer_price"].n2 > e["offer_price"].n2

\* the merge of s onto e is the published-to-unpublished transition
PublishToUnpublish(s, e) ==
    /\ IsTrue(Get(MetadataOf(s), "is_unpublished"))
    /\ IsFalse(Get(MetadataOf(e), "is_unpublished"))

GrewByOne(id) ==
    Len(ChangesOf(OfferOf(target_data, id))) = Len(ChangesOf(OfferOf(original_data, id))) + 1

C9_UnpublishedDateSetOnce ==
    \A id \in OfferIdsOf(source_data) :
        UpdatedOnce(id) =>
            LET s == OfferOf(source_data, id)
                e == OfferOf(original_data, id)
                r == OfferOf(target_data, id)
            IN /\ (PublishToUnpublish(s, e) /\ IsDate(UpdatedDateOf(s)))
                    => Get(MetadataOf(r), "unpublished_date") = UpdatedDateOf(s)
               /\ (/\ IsTrue(Get(MetadataOf(s), "is_unpublished"))
                   /\ IsTrue(Get(MetadataOf(e), "is_unpublished")))
                    => Get(MetadataOf(r), "unpublished_date")
                           = Get(MetadataOf(e), "unpublished_date")

\* an unpublished record dated D1 was merged onto a published listing,
\* which set unpublished_date to D1, and was merged a second time
C9_Witness ==
    \E id \in OfferIdsOf(source_data) :
        /\ merge_op = "again"
        /\ UpdatedOnce(id)
        /\ IsTrue(Get(MetadataOf(OfferOf(source_data, id)), "is_unpublished"))
        /\ UpdatedDateOf(OfferOf(source_data, id)) = D1
        /\ Get(MetadataOf(OfferOf(original_data, id)), "unpublished_date") = D1
        /\ Get(MetadataOf(OfferOf(target_data, id)), "unpublished_date") = D1

(***************************************************************************)
(* C10: the price_changes entry                                            *)
(***************************************************************************)

\* the merge of s onto e is a dated price change outside the transition
DatedPriceChange(s, e) ==
    /\ IsDate(UpdatedDateOf(s))
    /\ "offer_price" \in DOMAIN s /\ IsNumber(s["offer_price"])
    /\ "offer_price" \in DOMAIN e /\ IsNumber(e["offer_price"])
    /\ s["offer_price"].n2 # e["offer_price"].n2
    /\ ~PublishToUnpublish(s, e)

\* what the merge of s onto e left in r, with `change` as the entry's change
PriceChangeRecorded(s, e, r, change) ==
    /\ ChangesOf(r) = Append(ChangesOf(e),
                             Dict([change |-> change,
                                   current_price |-> StrOfNumber(s["offer_price"]),
                                   previous_price |-> StrOfNumber(e["offer_price"]),
                                   date |-> UpdatedDateOf(s)]))
    /\ r["offer_price"] = s["offer_price"]
    /\ Get(MetadataOf(r), "last_active") = UpdatedDateOf(s)
    /\ "updated_date" \notin DOMAIN MetadataOf(r)

MaxUrls == 4
\* config.concurrent_limit
MaxConcurrent == 2

network_error_threshold == 3

network_error_patterns ==
    {"ERR_CONNECTION_CLOSED", "ERR_PROXY_CONNECTION_FAILED",
     "ERR_TUNNEL_CONNECTION_FAILED", "ERR_SOCKS_CONNECTION_FAILED",
     "ERR_CONNECTION_RESET", "ERR_CONNECTION_REFUSED",
     "ERR_CONNECTION_TIMED_OUT", "ERR_NETWORK_CHANGED",
     "ERR_NAME_NOT_RESOLVED"}

\* str(e) as the sequence of its words; `pattern in error_str` is membership
Contains(error_str, pattern) == \E k \in 1..Len(error_str) : error_str[k] = pattern

\* every error taken as a network error
IsNetworkError_Always(error_str) == TRUE

\* lines 216-230: any(pattern in error_str for pattern in network_error_patterns)
IsNetworkError(error_str) ==
    \E pattern \in network_error_patterns : Contains(error_str, pattern)

\* the exceptions a fetch (page.goto, page.evaluate) raises
FetchErrors ==
    {<<"Page.goto:", "net::", "ERR_CONNECTION_RESET">>,
     <<"Page.goto:", "Timeout", "30000ms", "exceeded">>}

\* the proxies get_proxy hands out: a server, or None when none is available
ProxyServers == {"socks5://127.0.0.1:1080", "socks5://127.0.0.1:1081"}

GetProxyResults == ProxyServers \cup {Direct}

\* the proxy the worker is created with: the first server, or none
InitialProxies == {"socks5://127.0.0.1:1080", Direct}

Url(i) == "https://www.cian.ru/rent/flat/" \o ToString(i)

Tasks == 1..Len(urls_batch)

\* the refresh is a plain call: the task keeps the event loop while it runs
RefreshYields_Awaited == TRUE

RefreshYields == FALSE

\* asyncio.gather gives the tasks' results in the order of the tasks
GatherResults_SuccessOnly(res) ==
    SelectSeq(res, LAMBDA r : r.status = "success")

GatherResults(res) == [i \in 1..Len(res) |-> res[i]]

\* execute_tasks builds the worker's context and pool; _scrape_worker builds
\* its semaphore and counters and creates one task per URL
WorkerInit ==
    /\ MergeIdle
    /\ RetryIdle
    /\ OrchestratorIdle
    /\ PipelineIdle
    /\ CountersIdle
    /\ DeepMergeIdle
    /\ ProcessIdle
    /\ \E n \in 1..MaxUrls : urls_batch = [i \in 1..n |-> Url(i)]
    /\ vpn_manager \in BOOLEAN
    /\ concurrent_limit \in 1..MaxConcurrent
    /\ semaphore = concurrent_limit
    /\ available = concurrent_limit
    /\ proxy_config \in (IF vpn_manager THEN InitialProxies ELSE {Direct})
    /\ context_proxy = proxy_config
    /\ consecutive_network_errors = 0
    /\ counters = [start |-> 0, success |-> 0, error |-> 0]
    /\ pc = [i \in Tasks |-> "semaphore"]
    /\ result = [i \in Tasks |-> NoResult]
    /\ running = 0
    /\ worker_pc = "running"
    /\ results = <<>>
    /\ calls = [refresh |-> 0, get_proxy |-> 0]
    /\ crossings = 0
    /\ handled = NoHandling
    /\ fetch_proxy = [i \in Tasks |-> NoFetch]

\* a task may be resumed: the worker runs and no task holds the event loop
Resumable(i) ==
    /\ worker_pc = "running"
    /\ running = 0
    /\ i \in Tasks

\* the exception of context.new_page() on a context that is gone
NewPageErrorStr == <<"BrowserContext.new_page:", "Target", "closed">>

\* the worker's one browser context is gone: new_page raised on it once, and
\* from then on no page of it navigates and no page is created in it
ContextClosed == \E i \in Tasks : result[i].error = NewPageErrorStr

\* async with semaphore: the tasks take the slots in the order they were
\* created; then the task sleeps in apply_delay
EnterSemaphore(i) ==
    /\ Resumable(i)
    /\ pc[i] = "semaphore"
    /\ \A j \in 1..(i - 1) : pc[j] # "semaphore"
    /\ semaphore > 0
    /\ semaphore' = semaphore - 1
    /\ pc' = [pc EXCEPT ![i] = "delay"]
    /\ UNCHANGED <<urls_batch, vpn_manager, concurrent_limit, available,
                   context_proxy, proxy_config, consecutive_network_errors,
                   counters, result, running, worker_pc, results, calls,
                   crossings, handled, fetch_proxy>>
    /\ UNCHANGED not_worker

\* get_page, the start log, and page.goto is under way in the pool's context
StartFetch(i) ==
    /\ Resumable(i)
    /\ pc[i] = "delay"
    /\ available > 0
    /\ available' = available - 1
    /\ counters' = [counters EXCEPT !.start = @ + 1]
    /\ fetch_proxy' = [fetch_proxy EXCEPT ![i] =
                          [context |-> context_proxy,
                           config |-> proxy_config,
                           after_switch |-> calls.get_proxy > 0]]
    /\ pc' = [pc EXCEPT ![i] = "fetch"]
    /\ UNCHANGED <<urls_batch, vpn_manager, concurrent_limit, semaphore,
                   context_proxy, proxy_config, consecutive_network_errors,
                   result, running, worker_pc, results, calls, crossings,
                   handled>>
    /\ UNCHANGED not_worker

\* goto and evaluate succeeded: the record, the success log, the counter reset
FetchSucceeds(i) ==
    /\ Resumable(i)
    /\ pc[i] = "fetch"
    /\ ~ContextClosed
    /\ result' = [result EXCEPT ![i] =
                     [url |-> urls_batch[i], status |-> "success",
                      error |-> <<>>, proxy_switched |-> FALSE]]
    /\ counters' = [counters EXCEPT !.success = @ + 1]
    /\ consecutive_network_errors' = 0
    /\ handled' = NoHandling
    /\ pc' = [pc EXCEPT ![i] = "return_page"]
    /\ UNCHANGED <<urls_batch, vpn_manager, concurrent_limit, semaphore,
                   available, context_proxy, proxy_config, running, worker_pc,
                   results, calls, crossings, fetch_proxy>>
    /\ UNCHANGED not_worker

\* the error text names one of the network failures of lines 216-226
NamesNetworkFailure(error_str) ==
    \E k \in 1..Len(error_str) : error_str[k] \in network_error_patterns

\* lines 211-262, the except branch up to the switch, or, when there is no
\* switch, up to the await of return_page
ExceptBranch(i, error_str) ==
    /\ LET is_network_error == IsNetworkError(error_str)
           count == IF is_network_error THEN consecutive_network_errors + 1 ELSE 0
           switch == /\ is_network_error
                     /\ count >= network_error_threshold
                     /\ vpn_manager
           streak == IF NamesNetworkFailure(error_str) THEN handled.streak + 1 ELSE 0
       IN /\ result' = [result EXCEPT ![i] =
                           [url |-> urls_batch[i], status |-> "error",
                            error |-> error_str, proxy_switched |-> FALSE]]
          /\ consecutive_network_errors' = count
          /\ crossings' = IF is_network_error /\ vpn_manager
                             /\ count = network_error_threshold
                          THEN crossings + 1 ELSE crossings
          /\ handled' = [streak |-> streak, nth |-> streak, refresh |-> 0,
                         get_proxy |-> 0, counter_after |-> count,
                         ended |-> ~switch]
          /\ IF switch
             THEN /\ pc' = [pc EXCEPT ![i] = "refresh"]
                  /\ running' = IF RefreshYields THEN 0 ELSE i
                  /\ UNCHANGED counters
             ELSE /\ pc' = [pc EXCEPT ![i] = "return_page_error"]
                  /\ running' = 0
                  /\ counters' = [counters EXCEPT !.error = @ + 1]
    /\ UNCHANGED <<urls_batch, vpn_manager, concurrent_limit, semaphore,
                   available, context_proxy, proxy_config, worker_pc, results,
                   calls, fetch_proxy>>
    /\ UNCHANGED not_worker

\* goto or evaluate raised
FetchFails(i, error_str) ==
    /\ Resumable(i)
    /\ pc[i] = "fetch"
    /\ ExceptBranch(i, error_str)

\* run_speed_test re-probes the servers: it returns rankings, or it raises
\* when no candidate remains
run_speed_test == {"ranked", "raises"}

\* task.vpn_manager._run_speed_test_and_sort_servers(): it returns, or it
\* raises; nothing in the task catches, so gather raises in the worker
RefreshServers(i, speed_test) ==
    /\ worker_pc = "running"
    /\ i \in Tasks
    /\ pc[i] = "refresh"
    /\ running = IF RefreshYields THEN 0 ELSE i
    /\ calls' = [calls EXCEPT !.refresh = @ + 1]
    /\ IF speed_test = "raises"
       THEN /\ pc' = [pc EXCEPT ![i] = "refresh_raised"]
            /\ worker_pc' = "raised"
            /\ running' = 0
            /\ handled' = [handled EXCEPT !.refresh = @ + 1,
                                          !.counter_after = consecutive_network_errors,
                                          !.ended = TRUE]
       ELSE /\ pc' = [pc EXCEPT ![i] = "get_proxy"]
            /\ worker_pc' = worker_pc
            /\ running' = i
            /\ handled' = [handled EXCEPT !.refresh = @ + 1]
    /\ UNCHANGED <<urls_batch, vpn_manager, concurrent_limit, semaphore,
                   available, context_proxy, proxy_config,
                   consecutive_network_errors, counters, result, results,
                   crossings, fetch_proxy>>
    /\ UNCHANGED not_worker

\* task.proxy_config = get_proxy(process_id), the counter reset, the flag on
\* the record, the error log, up to the await of return_page
GetProxy(i, proxy) ==
    /\ worker_pc = "running"
    /\ i \in Tasks
    /\ pc[i] = "get_proxy"
    /\ running = i
    /\ proxy_config' = proxy
    /\ calls' = [calls EXCEPT !.get_proxy = @ + 1]
    /\ consecutive_network_errors' = 0
    /\ result' = [result EXCEPT ![i].proxy_switched = TRUE]
    /\ counters' = [counters EXCEPT !.error = @ + 1]
    /\ handled' = [handled EXCEPT !.streak = 0, !.get_proxy = @ + 1,
                                  !.counter_after = 0, !.ended = TRUE]
    /\ pc' = [pc EXCEPT ![i] = "return_page_error"]
    /\ running' = 0
    /\ UNCHANGED <<urls_batch, vpn_manager, concurrent_limit, semaphore,
                   available, context_proxy, worker_pc, results, crossings,
                   fetch_proxy>>
    /\ UNCHANGED not_worker

\* PagePool.return_page: the page is reset and put back, or the reset fails
\* and a replacement page of the same context is put back, or the reset
\* fails and context.new_page() raises too
ReleaseOutcomes == {"reset", "replaced", "raises"}

\* return_page put one page into the pool; the task returns its record and
\* leaves the semaphore
ReturnPage(i, release) ==
    /\ Resumable(i)
    /\ pc[i] \in {"return_page", "return_page_error"}
    /\ release \in {"reset", "replaced"}
    /\ ~ContextClosed
    /\ available' = available + 1
    /\ semaphore' = semaphore + 1
    /\ pc' = [pc EXCEPT ![i] = "done"]
    /\ fetch_proxy' = [fetch_proxy EXCEPT ![i] = NoFetch]
    /\ UNCHANGED <<urls_batch, vpn_manager, concurrent_limit, context_proxy,
                   proxy_config, consecutive_network_errors, counters, result,
                   running, worker_pc, results, calls, crossings, handled>>
    /\ UNCHANGED not_worker

\* return_page raised on the success path (line 208): the except branch
\* takes it as the URL's error
ReturnPageRaises(i) ==
    /\ Resumable(i)
    /\ pc[i] = "return_page"
    /\ ExceptBranch(i, NewPageErrorStr)

\* return_page raised in the except branch (line 266): nothing catches, the
\* task ends without its page in the pool and gather raises in the worker
ReturnPageEscapes(i) ==
    /\ Resumable(i)
    /\ pc[i] = "return_page_error"
    /\ pc' = [pc EXCEPT ![i] = "release_raised"]
    /\ worker_pc' = "raised"
    /\ UNCHANGED <<urls_batch, vpn_manager, concurrent_limit, semaphore,
                   available, context_proxy, proxy_config,
                   consecutive_network_errors, counters, result, running,
                   results, calls, crossings, handled, fetch_proxy>>
    /\ UNCHANGED not_worker

\* every task has returned: gather returns and the worker returns the list
WorkerReturns ==
    /\ worker_pc = "running"
    /\ \A i \in Tasks : pc[i] = "done"
    /\ results' = GatherResults(result)
    /\ worker_pc' = "returned"
    /\ UNCHANGED <<urls_batch, vpn_manager, concurrent_limit, semaphore,
                   available, context_proxy, proxy_config,
                   consecutive_network_errors, counters, pc, result, running,
                   calls, crossings, handled, fetch_proxy>>
    /\ UNCHANGED not_worker

WorkerNext ==
    \/ \E i \in 1..MaxUrls : EnterSemaphore(i)
    \/ \E i \in 1..MaxUrls : StartFetch(i)
    \/ \E i \in 1..MaxUrls : FetchSucceeds(i)
    \/ \E i \in 1..MaxUrls : \E error_str \in FetchErrors : FetchFails(i, error_str)
    \/ \E i \in 1..MaxUrls : \E speed_test \in run_speed_test : RefreshServers(i, speed_test)
    \/ \E i \in 1..MaxUrls : \E proxy \in GetProxyResults : GetProxy(i, proxy)
    \/ \E i \in 1..MaxUrls : \E release \in ReleaseOutcomes : ReturnPage(i, release)
    \/ \E i \in 1..MaxUrls : ReturnPageRaises(i)
    \/ \E i \in 1..MaxUrls : ReturnPageEscapes(i)
    \/ WorkerReturns

SpecWorker == WorkerInit /\ [][WorkerNext]_vars

\* the tasks that are inside the proxy switch
InSwitch == {i \in Tasks : pc[i] \in {"refresh", "get_proxy"}}

\* C1: when the worker returns, its list has one record per URL of the batch,
\* in the batch's order, each a success or an error record carrying that URL
C1_OneRecordPerUrl ==
    worker_pc = "returned" =>
        /\ Len(results) = Len(urls_batch)
        /\ \A i \in 1..Len(results) :
              /\ i <= Len(urls_batch)
              /\ results[i].url = urls_batch[i]
              /\ results[i].status \in {"success", "error"}

\* a worker returned a batch of at least three URLs with successes and
\* failures among them
C1_Witness ==
    /\ worker_pc = "returned"
    /\ Len(urls_batch) >= 3
    /\ \E i, j \in 1..Len(results) :
          /\ results[i].status = "success"
          /\ results[j].status = "error"

\* C3 as stated: in a worker with a provider, once the third of three
\* consecutively handled network errors has been handled, that handling made
\* exactly one refresh call and one get_proxy call and left the counter at 0
C3_SwitchAtThirdError ==
    (vpn_manager /\ handled.ended /\ handled.nth = network_error_threshold) =>
        /\ handled.refresh = 1
        /\ handled.get_proxy = 1
        /\ handled.counter_after = 0

\* C4 as stated: a fetch that starts after a proxy switch runs in a context
\* whose proxy is the worker's task.proxy_config
C4_FetchUsesSwitchedProxy ==
    \A i \in Tasks :
        fetch_proxy[i].after_switch => fetch_proxy[i].context = fetch_proxy[i].config

\* the tasks whose switch ended in the refresh raising
Aborted == {i \in Tasks : pc[i] = "refresh_raised"}

\* C5: at most one task of the worker is inside the proxy switch, and every
\* crossing of the threshold has exactly one switch: one refresh call, made
\* or about to be made, and one get_proxy call, made, or still to come in
\* the switch in progress, or cut off by the refresh raising
C5_SwitchSerialized ==
    /\ Cardinality(InSwitch) <= 1
    /\ calls.refresh + Cardinality({i \in Tasks : pc[i] = "refresh"}) = crossings
    /\ calls.get_proxy + Cardinality(InSwitch) + Cardinality(Aborted) = crossings

\* a task is inside the switch while another task's fetch is under way
C5_Witness ==
    \E i, j \in Tasks :
        /\ i # j
        /\ pc[i] = "get_proxy"
        /\ pc[j] = "fetch"
        /\ crossings = 1
        /\ calls.refresh = 1

(***************************************************************************)
(* scraper/run.py: run_scrapper, the retry loop over scrape_all.           *)
(***************************************************************************)

\* URLs handed to run_scrapper
MaxRetryUrls == 3
\* max_retry_attempts
MaxAttempts == 2
\* num_processes
MaxProcesses == 2

\* what the fetch of one URL comes to in a round
FetchOutcomes == {"complete", "incomplete", "unpublished", "network", "gone"}

NetworkErrorStr == <<"Page.goto:", "net::", "ERR_CONNECTION_RESET">>

\* the offer ids the URL lists of a run start at: 1, and 404
FirstOfferIds == {1, 404}

\* a URL as the pieces of text that "404" in str(...) can match: the offer
\* id 404 is such a piece
UrlPieces(url) ==
    IF url = Url(404) THEN <<"https://www.cian.ru/rent/flat/", "404">> ELSE <<url>>

\* str(e) of the exception of page.goto(url): the error and the URL it was
\* navigating to
NavigationErrorStr(url) == NetworkErrorStr \o <<"at">> \o UrlPieces(url)

GoneErrorStr == <<"HTTP", "404", "Not", "Found">>

\* the record scrape_all gives for a URL: url, the error if the key is there,
\* whether metadata.is_unpublished is False, whether estimation_price is set
FetchRecord(url, outcome) ==
    [url |-> url,
     has_error |-> outcome \in {"network", "gone"},
     error |-> IF outcome = "network" THEN NavigationErrorStr(url)
               ELSE IF outcome = "gone" THEN GoneErrorStr
               ELSE <<>>,
     published |-> outcome \in {"complete", "incomplete"},
     estimation |-> outcome = "complete"]

\* the error of lines 88-89
MissingEstimationStr == <<"Missing", "estimation_price", "for", "published", "offer">>

\* the check of lines 84-91 made in every round
FlagMissingEstimation_EveryRound(r, i) ==
    IF r.published /\ ~r.estimation
    THEN [r EXCEPT !.has_error = TRUE, !.error = MissingEstimationStr]
    ELSE r

\* round 1 only: a published record without estimation_price gets an error
FlagMissingEstimation(r, i) ==
    IF i = 0 /\ r.published /\ ~r.estimation
    THEN [r EXCEPT !.has_error = TRUE,
                   !.error = <<"Missing", "estimation_price", "for",
                               "published", "offer">>]
    ELSE r

\* "404" in str(r.get("error", ""))
Is404(r) == r.has_error /\ Contains(r.error, "404")

IsFailed(r) == r.has_error /\ ~Is404(r)

\* scrape_all: the batches handed to the workers
Chunks(urls, processes) ==
    LET n == IF processes < Len(urls) THEN processes ELSE Len(urls)
        index(i) == (Len(urls) * i) \div n
    IN [i \in 1..n |-> SubSeq(urls, index(i - 1) + 1, index(i))]

\* the positions of a batch in the URL list
ChunkPositions(urls, processes, c) ==
    LET n == IF processes < Len(urls) THEN processes ELSE Len(urls)
        index(i) == (Len(urls) * i) \div n
    IN (index(c - 1) + 1)..index(c)

\* a worker with a provider refreshes the servers when it has handled
\* network_error_threshold network errors in a row
SomeWorkerRefreshes(urls, processes, outcomes) ==
    /\ vpn_mgr
    /\ \E c \in 1..Len(Chunks(urls, processes)) :
          Cardinality({k \in ChunkPositions(urls, processes, c) :
                          outcomes[k] = "network"}) >= network_error_threshold

RetryInit ==
    /\ MergeIdle
    /\ WorkerIdle
    /\ OrchestratorIdle
    /\ PipelineIdle
    /\ CountersIdle
    /\ DeepMergeIdle
    /\ ProcessIdle
    /\ \E n \in 1..MaxRetryUrls, first \in FirstOfferIds :
          urls_to_scrape = [k \in 1..n |-> Url(first + k - 1)]
    /\ max_retry_attempts \in 1..MaxAttempts
    /\ num_processes \in 1..MaxProcesses
    /\ vpn_mgr \in BOOLEAN
    /\ remaining_urls = urls_to_scrape
    /\ successful = <<>>
    /\ failed = <<>>
    /\ attempt = 0
    /\ run_pc = "loop"
    /\ rounds = 0
    /\ only_network = TRUE
    /\ round_fault = "none"
    /\ last_fetched = <<>>

\* the failures of the earlier rounds kept beside the round's own
RoundFailed_Accumulated(failed_before, new_failed) == failed_before \o new_failed

\* line 82: failed = [] in every round, then the round's failures
RoundFailed(failed_before, new_failed) == new_failed

\* one pass of the loop body: scrape_all returns a record per remaining URL,
\* the records are partitioned, remaining_urls becomes the failed URLs
RetryRound(outcomes) ==
    /\ run_pc = "loop"
    /\ attempt < max_retry_attempts
    /\ remaining_urls # <<>>
    /\ LET res == [k \in 1..Len(remaining_urls) |->
                      FlagMissingEstimation(
                          FetchRecord(remaining_urls[k], outcomes[k]), attempt)]
           new_failed == SelectSeq(res, IsFailed)
       IN /\ successful' = successful \o SelectSeq(res, LAMBDA r : ~IsFailed(r))
          /\ failed' = RoundFailed(failed, new_failed)
          /\ remaining_urls' = [k \in 1..Len(new_failed) |-> new_failed[k].url]
          /\ last_fetched' = res
    /\ attempt' = attempt + 1
    /\ rounds' = rounds + 1
    /\ only_network' = (only_network /\ \A k \in DOMAIN outcomes : outcomes[k] = "network")
    /\ UNCHANGED <<urls_to_scrape, max_retry_attempts, num_processes, vpn_mgr,
                   run_pc, round_fault>>
    /\ UNCHANGED not_retry

\* scrape_all raises: a worker's refresh raised, and neither the worker, nor
\* scrape_all, nor run_scrapper catches
RetryRoundRaises(outcomes) ==
    /\ run_pc = "loop"
    /\ attempt < max_retry_attempts
    /\ remaining_urls # <<>>
    /\ SomeWorkerRefreshes(remaining_urls, num_processes, outcomes)
    /\ run_pc' = "raised"
    /\ round_fault' = "refresh"
    /\ rounds' = rounds + 1
    /\ only_network' = (only_network /\ \A k \in DOMAIN outcomes : outcomes[k] = "network")
    /\ UNCHANGED <<urls_to_scrape, max_retry_attempts, num_processes, vpn_mgr,
                   remaining_urls, successful, failed, attempt, last_fetched>>
    /\ UNCHANGED not_retry

\* scrape_all raises before any fetch: playwright.chromium.launch failed in
\* execute_tasks, and neither scrape_all nor run_scrapper catches
RetryRoundFaults ==
    /\ run_pc = "loop"
    /\ attempt < max_retry_attempts
    /\ remaining_urls # <<>>
    /\ run_pc' = "raised"
    /\ round_fault' = "launch"
    /\ rounds' = rounds + 1
    /\ only_network' = FALSE
    /\ UNCHANGED <<urls_to_scrape, max_retry_attempts, num_processes, vpn_mgr,
                   remaining_urls, successful, failed, attempt, last_fetched>>
    /\ UNCHANGED not_retry

\* the loop ends, by exhausting range(max_retry_attempts) or by the break on
\* an empty remaining_urls, and run_scrapper returns successful + failed
RetryReturns ==
    /\ run_pc = "loop"
    /\ attempt = max_retry_attempts \/ remaining_urls = <<>>
    /\ run_pc' = "returned"
    /\ UNCHANGED <<urls_to_scrape, max_retry_attempts, num_processes, vpn_mgr,
                   remaining_urls, successful, failed, attempt, rounds,
                   only_network, round_fault, last_fetched>>
    /\ UNCHANGED not_retry

\* the outcomes of a round: one per remaining URL
RoundOutcomes == [1..Len(remaining_urls) -> FetchOutcomes]

RetryNext ==
    \/ \E outcomes \in RoundOutcomes : RetryRound(outcomes)
    \/ \E outcomes \in RoundOutcomes : RetryRoundRaises(outcomes)
    \/ RetryRoundFaults
    \/ RetryReturns

SpecRetry == RetryInit /\ [][RetryNext]_vars

\* C2 as stated: when every fetch of every round failed with a network error,
\* run_scrapper ends by returning, after max_retry_attempts rounds, with no
\* successful record and one failed record per original URL
C2_AllNetworkErrorsTerminate ==
    (only_network /\ run_pc \in {"returned", "raised"}) =>
        /\ run_pc = "returned"
        /\ rounds = max_retry_attempts
        /\ successful = <<>>
        /\ Len(failed) = Len(urls_to_scrape)
        /\ \A k \in 1..Len(failed) :
              failed[k].has_error /\ failed[k].url = urls_to_scrape[k]

\* C17: when scrape_all aborts with a worker-level fault inside the retry
\* loop, run_scrapper does not raise: the round counts as an attempt, every
\* URL of the round stays in remaining_urls and the loop goes on
C17_FaultDoesNotPropagate ==
    round_fault # "none" =>
        /\ run_pc # "raised"
        /\ attempt = rounds
        /\ remaining_urls # <<>>

\* a record of a page that is gone: its error is the 404
NotFound(r) == r.has_error /\ r.error = GoneErrorStr

\* the URLs of a list of records
UrlsOf(records) == {records[k].url : k \in 1..Len(records)}

\* C21: the list submitted in the next round is exactly the URLs of the
\* round's records that carry an error which is not a 404: a URL whose
\* record has no error or a 404 is classified successful and not submitted
\* again, and a URL that failed with any other error is submitted again
C21_ResubmitExactlyTheFailed ==
    [][attempt' = attempt + 1 =>
          LET new_successful == SubSeq(successful', Len(successful) + 1, Len(successful'))
          IN /\ remaining_urls' = [k \in 1..Len(failed') |-> failed'[k].url]
             /\ \A k \in 1..Len(failed') :
                   failed'[k].has_error /\ ~NotFound(failed'[k])
             /\ \A k \in 1..Len(new_successful) :
                   ~new_successful[k].has_error \/ NotFound(new_successful[k])
             /\ UrlsOf(new_successful) \cup UrlsOf(failed') = UrlsOf(
                   [k \in 1..Len(remaining_urls) |-> [url |-> remaining_urls[k]]])
             /\ UrlsOf(successful') \cap UrlsOf(failed') = {}]_vars

\* a record of a published offer (is_unpublished is False) without an
\* estimation price
Incomplete(r) == r.published /\ ~r.estimation

\* C25: the "missing estimation price" error is applied in round 1 only: a
\* published record without estimation price is in failed, with that error
\* and its URL listed for the next round, only as a record of round 1; as a
\* record of a later round it is in successful, carries no error and its
\* URL is not listed again, so incompleteness alone costs at most one more
\* fetch
C25_IncompleteFlaggedInRoundOne ==
    LET listed == {remaining_urls[k] : k \in 1..Len(remaining_urls)}
    IN /\ \A k \in 1..Len(failed) :
             Incomplete(failed[k]) =>
                 /\ attempt = 1
                 /\ failed[k].error = MissingEstimationStr
                 /\ failed[k].url \in listed
       /\ \A k \in 1..Len(successful) :
             Incomplete(successful[k]) =>
                 /\ attempt >= 2
                 /\ ~successful[k].has_error
                 /\ successful[k].url \notin listed

\* a URL gave a published record without estimation price in round 1 and
\* again in round 2: it was fetched twice and is successful
C25_Witness ==
    /\ attempt = 2
    /\ remaining_urls = <<>>
    /\ \E k \in 1..Len(successful) :
          Incomplete(successful[k]) /\ ~successful[k].has_error

\* C28: when run_scrapper returns, successful + failed holds exactly one
\* record per original URL, whatever the number of rounds: the failures of
\* earlier rounds are replaced, no URL is both in successful and in failed,
\* and a failed entry carries the error of the URL's last fetch
C28_OneRecordPerOriginalUrl ==
    run_pc = "returned" =>
        LET res == successful \o failed
        IN /\ Len(res) = Len(urls_to_scrape)
           /\ \A j \in 1..Len(urls_to_scrape) :
                 Cardinality({k \in 1..Len(res) : res[k].url = urls_to_scrape[j]}) = 1
           /\ UrlsOf(successful) \cap UrlsOf(failed) = {}
           /\ \A k \in 1..Len(failed) :
                 /\ failed[k].has_error
                 /\ \E j \in 1..Len(last_fetched) : last_fetched[j] = failed[k]

\* run_scrapper returned after two rounds: a URL that failed in round 1
\* succeeded in round 2, another failed in both
C28_Witness ==
    /\ run_pc = "returned"
    /\ rounds = 2
    /\ failed # <<>>
    /\ \E j, k \in 1..Len(successful) : \E a, b \in 1..Len(urls_to_scrape) :
          /\ j < k /\ a < b
          /\ successful[j].url = urls_to_scrape[b]
          /\ successful[k].url = urls_to_scrape[a]
          /\ ~successful[k].has_error

(***************************************************************************)
(* C22: the worker's consecutive_network_errors.                           *)
(***************************************************************************)

\* C22: every successful fetch and every handled non-network error sets
\* consecutive_network_errors to 0 and every handled network error adds one:
\* the counter is the number of network errors handled since the last
\* success, non-network error or completed switch, so a task is in the proxy
\* switch only when at least threshold (3) of them were handled with nothing
\* else in between, whatever the interleaving of the tasks
C22_CounterResets ==
    /\ consecutive_network_errors = handled.streak
    /\ \A i \in Tasks :
          pc[i] \in {"refresh", "get_proxy", "refresh_raised"} =>
              handled.streak >= network_error_threshold
    /\ calls.refresh > 0 => crossings > 0

\* a worker with a provider returned: three of its fetches failed with a
\* network error, a success in between reset the count, and no switch fired
C22_Witness ==
    /\ vpn_manager
    /\ worker_pc = "returned"
    /\ Cardinality({i \in Tasks : NamesNetworkFailure(result[i].error)}) = 3
    /\ counters.success = 1
    /\ calls.refresh = 0

(***************************************************************************)
(* C23: one special case per merge                                         *)
(***************************************************************************)

\* the merge set the listing's unpublished_date to the record's updated_date
AssignedUnpublishedDate(s, e, r) ==
    /\ IsDate(UpdatedDateOf(s))
    /\ Get(MetadataOf(r), "unpublished_date") = UpdatedDateOf(s)
    /\ Get(MetadataOf(e), "unpublished_date") # UpdatedDateOf(s)

\* the merge appended one entry to the listing's price_changes
AppendedPriceChange(e, r) ==
    /\ Len(ChangesOf(r)) = Len(ChangesOf(e)) + 1
    /\ SubSeq(ChangesOf(r), 1, Len(ChangesOf(e))) = ChangesOf(e)

\* C23: a merge of one source record onto an existing listing applies at most
\* one special case: it never both sets unpublished_date and appends a
\* price_changes entry, an unpublish transition sets the date and appends
\* nothing even when the price differs, and whenever the record has an
\* updated_date the listing's last_active is that date afterwards
C23_OneSpecialCase ==
    \A id \in OfferIdsOf(source_data) :
        UpdatedOnce(id) =>
            LET s == OfferOf(source_data, id)
                e == OfferOf(original_data, id)
                r == OfferOf(target_data, id)
            IN /\ ~(AssignedUnpublishedDate(s, e, r) /\ AppendedPriceChange(e, r))
               /\ (PublishToUnpublish(s, e) /\ IsDate(UpdatedDateOf(s))) =>
                     /\ Get(MetadataOf(r), "unpublished_date") = UpdatedDateOf(s)
                     /\ ChangesOf(r) = ChangesOf(e)
               /\ IsDate(UpdatedDateOf(s)) =>
                     Get(MetadataOf(r), "last_active") = UpdatedDateOf(s)

\* an unpublished record with another price was merged onto a published
\* listing: the date was set, the price was taken, no entry was appended
C23_Witness ==
    \E id \in OfferIdsOf(source_data) :
        /\ merge_op = "merge"
        /\ UpdatedOnce(id)
        /\ LET s == OfferOf(source_data, id)
               e == OfferOf(original_data, id)
               r == OfferOf(target_data, id)
           IN /\ PublishToUnpublish(s, e)
              /\ IsPriceChange(e, s)
              /\ AssignedUnpublishedDate(s, e, r)
              /\ r["offer_price"] = s["offer_price"]
              /\ ChangesOf(r) = ChangesOf(e)
              /\ Get(MetadataOf(r), "last_active") = UpdatedDateOf(s)

(***************************************************************************)
(* C27: the worker under a fair event loop                                 *)
(***************************************************************************)

\* the worker with an event loop that resumes a task whenever one can run,
\* and navigations and extractions that complete or time out: a step is
\* taken as long as one is possible
SpecWorkerFair == WorkerInit /\ [][WorkerNext]_vars /\ WF_vars(WorkerNext)

\* C27 as stated: every per-URL task eventually gets its slot and its page
\* and produces its record, and the worker eventually returns
C27_EveryTaskEndsWorkerReturns ==
    <>(/\ worker_pc = "returned"
       /\ \A i \in Tasks : pc[i] = "done" /\ result[i].status \in {"success", "error"})

(***************************************************************************)
(* C30: the counters of a batch                                            *)
(***************************************************************************)

\* C30 as stated: every URL is counted once in start and then once in
\* exactly one of success and error, so at every moment success + error <=
\* start <= the number of URLs, and when the worker has returned success +
\* error = start = the number of URLs
C30_CountersAccountForUrls ==
    /\ counters.success + counters.error <= counters.start
    /\ counters.start <= Len(urls_batch)
    /\ worker_pc = "returned" =>
          /\ counters.success + counters.error = Len(urls_batch)
          /\ counters.start = Len(urls_batch)

(***************************************************************************)
(* C29: the unpublished_date of a listing that stays unpublished           *)
(***************************************************************************)

\* C29 as stated: a listing that is unpublished with a non-empty
\* unpublished_date before a merge and is still unpublished after it has the
\* same unpublished_date, whatever the normalized source records say,
\* records that do not state is_unpublished included
C29_UnpublishedDateKept ==
    merge_op \in {"merge", "again"} =>
        \A id \in OfferIdsOf(original_data) :
            LET e == OfferOf(original_data, id)
                r == OfferOf(target_data, id)
            IN (/\ IsTrue(Get(MetadataOf(e), "is_unpublished"))
                /\ IsDate(Get(MetadataOf(e), "unpublished_date"))
                /\ IsTrue(Get(MetadataOf(r), "is_unpublished")))
                 => Get(MetadataOf(r), "unpublished_date")
                        = Get(MetadataOf(e), "unpublished_date")

(***************************************************************************)
(* C11, C12, C13: what a merge keeps                                       *)
(***************************************************************************)

IsPrefix(a, b) == Len(a) <= Len(b) /\ \A k \in 1..Len(a) : b[k] = a[k]

\* C11 as stated: after every merge, every listing the target held is still
\* there and its price_changes starts with the price_changes it had before
C11_PriceChangesAppendOnly ==
    merge_op \in {"merge", "again"} =>
        \A id \in OfferIdsOf(original_data) :
            /\ HasOffer(target_data, id)
            /\ IsPrefix(ChangesOf(OfferOf(original_data, id)),
                        ChangesOf(OfferOf(target_data, id)))

\* C12: no record of the merged result stores metadata.updated_date
C12_NoUpdatedDateStored ==
    \A i \in 1..Len(target_data) :
        "updated_date" \notin DOMAIN MetadataOf(target_data[i])

\* a batch whose records carry updated_date was merged: one record updated
\* a listing in place, another was inserted as a new listing
C12_Witness ==
    /\ merge_op = "merge"
    /\ \E i, j \in 1..Len(source_data) :
          /\ "updated_date" \in DOMAIN MetadataOf(source_data[i])
          /\ "updated_date" \in DOMAIN MetadataOf(source_data[j])
          /\ HasOffer(original_data, source_data[i]["offer_id"])
          /\ ~HasOffer(original_data, source_data[j]["offer_id"])

\* C13: merged into a target of distinct offer_ids, any source gives a
\* result that holds every offer_id of the target and of the source, each
\* exactly once
C13_EveryOfferIdOnce ==
    (merge_op \in {"merge", "again"} /\ DistinctIds(original_data)) =>
        /\ \A i \in 1..Len(target_data) : "offer_id" \in DOMAIN target_data[i]
        /\ OfferIdsOf(target_data) = OfferIdsOf(original_data) \cup OfferIdsOf(source_data)
        /\ DistinctIds(target_data)
        /\ Len(target_data) >= Len(original_data)
        /\ Len(target_data) >= Cardinality(OfferIdsOf(source_data))

\* a batch with a record of a listing the target holds and a record of a
\* listing it does not hold was merged into a non-empty target
C13_Witness ==
    /\ merge_op = "merge"
    /\ original_data # <<>>
    /\ DistinctIds(original_data)
    /\ \E i, j \in 1..Len(source_data) :
          /\ HasOffer(original_data, source_data[i]["offer_id"])
          /\ ~HasOffer(original_data, source_data[j]["offer_id"])

\* ---------------------------------------------------------------------
\* the page pool of a worker
\* ---------------------------------------------------------------------

\* the tasks that got a page from the pool and have not ended
HoldsPage(i) ==
    pc[i] \in {"fetch", "refresh", "get_proxy", "return_page", "return_page_error"}

\* C14: at every point of a worker's run the pages available in the pool
\* plus the pages held by the tasks in flight are the pool size, so the pool
\* holds size pages again when the worker finishes, however it finishes
C14_PagePoolConservation ==
    /\ available + Cardinality({i \in Tasks : HoldsPage(i)}) = concurrent_limit
    /\ worker_pc # "running" => available = concurrent_limit

\* C16: no failure met while one URL is processed (navigation, extraction,
\* page release, the refresh or get_proxy of its error handling) raises out
\* of the per-URL task or of the worker: the task ends with the URL's record
\* and the worker goes on
C16_NoFailureLeavesTheTask ==
    /\ worker_pc # "raised"
    /\ \A i \in Tasks : pc[i] \notin {"refresh_raised", "release_raised"}

(***************************************************************************)
(* One orchestrator invocation: BaseScraper.scrape_all partitions the URL  *)
(* list and hands the tasks to the strategy's execute_tasks.  The thread   *)
(* strategy owns one playwright and one browser with a context per task;   *)
(* in the process strategy every worker process owns its playwright, its   *)
(* browser and concurrent_limit contexts.                                  *)
(***************************************************************************)
MaxOrchUrls == 3

MaxOrchProcesses == 2

\* config.concurrent_limit of a worker process: the contexts of its pool
MaxContexts == 2

\* n = min(self.config.num_processes, len(urls))
BatchCount(us, processes) == IF processes < Len(us) THEN processes ELSE Len(us)

\* indices = [len(urls) * i // n for i in range(n + 1)] divides by n
PartitionRaises(us, processes) == BatchCount(us, processes) = 0

\* the owner of worker w's browser
OwnerOf(w) == IF strategy = "thread" THEN 1 ELSE w

OrchestratorInit ==
    /\ MergeIdle
    /\ WorkerIdle
    /\ RetryIdle
    /\ PipelineIdle
    /\ CountersIdle
    /\ DeepMergeIdle
    /\ ProcessIdle
    /\ \E len \in 0..MaxOrchUrls : url_list = [k \in 1..len |-> Url(k)]
    /\ config_num_processes \in 1..MaxOrchProcesses
    /\ strategy \in {"thread", "process"}
    /\ url_chunks = <<>>
    /\ orch_pc = "scrape_all"
    /\ orch_error = "none"
    /\ owners = <<>>
    /\ workers = <<>>

\* scrape_all up to the call of execute_tasks: the batches and a task for
\* each, or the ZeroDivisionError of the indices
CreateTasks ==
    /\ orch_pc = "scrape_all"
    /\ IF PartitionRaises(url_list, config_num_processes)
       THEN /\ orch_pc' = "raised"
            /\ orch_error' = "ZeroDivisionError"
            /\ UNCHANGED <<url_chunks, owners, workers>>
       ELSE /\ url_chunks' = Chunks(url_list, config_num_processes)
            /\ workers' = [w \in 1..BatchCount(url_list, config_num_processes) |-> "created"]
            /\ owners' = [o \in 1..(IF strategy = "thread" THEN 1
                                    ELSE BatchCount(url_list, config_num_processes))
                             |-> NoOwner]
            /\ orch_pc' = "execute_tasks"
            /\ UNCHANGED orch_error
    /\ UNCHANGED <<url_list, config_num_processes, strategy>>
    /\ UNCHANGED not_orchestrator

\* leaving the block of async with async_playwright(): playwright stops, and
\* with it its browser and the browser's contexts
StopPlaywright(o) ==
    [playwright |-> "stopped",
     browser |-> IF o.browser = "none" THEN "none" ELSE "closed",
     contexts |-> [k \in 1..Len(o.contexts) |-> "closed"]]

\* thread strategy: async with async_playwright() as playwright
StartPlaywright ==
    /\ strategy = "thread"
    /\ orch_pc = "execute_tasks"
    /\ owners' = [owners EXCEPT ![1].playwright = "started"]
    /\ orch_pc' = "launch"
    /\ UNCHANGED <<url_list, config_num_processes, strategy, url_chunks, orch_error,
                   workers>>
    /\ UNCHANGED not_orchestrator

\* thread strategy: playwright.chromium.launch returns the browser, or raises
LaunchBrowser(ok) ==
    /\ strategy = "thread"
    /\ orch_pc = "launch"
    /\ IF ok
       THEN /\ owners' = [owners EXCEPT ![1].browser = "open"]
            /\ orch_pc' = "new_context"
            /\ UNCHANGED orch_error
       ELSE /\ owners' = [owners EXCEPT ![1] = StopPlaywright(@)]
            /\ orch_pc' = "raised"
            /\ orch_error' = "launch"
    /\ UNCHANGED <<url_list, config_num_processes, strategy, url_chunks, workers>>
    /\ UNCHANGED not_orchestrator

\* thread strategy: the context and the page pool of the next task, or
\* new_context, set_extra_http_headers or pool.initialize raises; after the
\* last pool the workers are gathered
NewContext(ok) ==
    /\ strategy = "thread"
    /\ orch_pc = "new_context"
    /\ IF ok
       THEN /\ owners' = [owners EXCEPT ![1].contexts = Append(@, "open")]
            /\ IF Len(owners[1].contexts) + 1 = Len(workers)
               THEN /\ orch_pc' = "gather"
                    /\ workers' = [w \in 1..Len(workers) |-> "running"]
               ELSE UNCHANGED <<orch_pc, workers>>
            /\ UNCHANGED orch_error
       ELSE /\ owners' = [owners EXCEPT ![1] = StopPlaywright(@)]
            /\ orch_pc' = "raised"
            /\ orch_error' = "new_context"
            /\ UNCHANGED workers
    /\ UNCHANGED <<url_list, config_num_processes, strategy, url_chunks>>
    /\ UNCHANGED not_orchestrator

\* thread strategy: a worker returns its records, or it raises and gather
\* raises in execute_tasks while the other workers are still running
ThreadWorkerEnds(w, ok) ==
    /\ strategy = "thread"
    /\ orch_pc = "gather"
    /\ w \in 1..Len(workers)
    /\ workers[w] = "running"
    /\ IF ok
       THEN /\ workers' = [workers EXCEPT ![w] = "returned"]
            /\ UNCHANGED <<owners, orch_pc, orch_error>>
       ELSE /\ workers' = [workers EXCEPT ![w] = "raised"]
            /\ owners' = [owners EXCEPT ![1] = StopPlaywright(@)]
            /\ orch_pc' = "raised"
            /\ orch_error' = "worker"
    /\ UNCHANGED <<url_list, config_num_processes, strategy, url_chunks>>
    /\ UNCHANGED not_orchestrator

\* thread strategy: gather returned; await browser.close(), return
\* all_results, and the block of async with is left
BrowserClose ==
    /\ strategy = "thread"
    /\ orch_pc = "gather"
    /\ \A w \in 1..Len(workers) : workers[w] = "returned"
    /\ owners' = [owners EXCEPT ![1] = StopPlaywright(@)]
    /\ orch_pc' = "returned"
    /\ UNCHANGED <<url_list, config_num_processes, strategy, url_chunks, orch_error,
                   workers>>
    /\ UNCHANGED not_orchestrator

\* process strategy: a ScraperProcess is created and started for every task
StartProcesses ==
    /\ strategy = "process"
    /\ orch_pc = "execute_tasks"
    /\ workers' = [w \in 1..Len(workers) |-> "start"]
    /\ orch_pc' = "join"
    /\ UNCHANGED <<url_list, config_num_processes, strategy, url_chunks, orch_error,
                   owners>>
    /\ UNCHANGED not_orchestrator

\* a worker process: playwright = await async_playwright().start()
ProcessStartsPlaywright(w) ==
    /\ strategy = "process"
    /\ w \in 1..Len(workers)
    /\ workers[w] = "start"
    /\ owners' = [owners EXCEPT ![w].playwright = "started"]
    /\ workers' = [workers EXCEPT ![w] = "launch"]
    /\ UNCHANGED <<url_list, config_num_processes, strategy, url_chunks, orch_pc,
                   orch_error>>
    /\ UNCHANGED not_orchestrator

\* a worker process: _setup_browser returns the browser, or raises and the
\* process ends with the exception
ProcessLaunchesBrowser(w, ok) ==
    /\ strategy = "process"
    /\ w \in 1..Len(workers)
    /\ workers[w] = "launch"
    /\ IF ok
       THEN /\ owners' = [owners EXCEPT ![w].browser = "open"]
            /\ workers' = [workers EXCEPT ![w] = "new_context"]
       ELSE /\ workers' = [workers EXCEPT ![w] = "raised"]
            /\ UNCHANGED owners
    /\ UNCHANGED <<url_list, config_num_processes, strategy, url_chunks, orch_pc,
                   orch_error>>
    /\ UNCHANGED not_orchestrator

\* a worker process: _create_context_pool creates the next context, or
\* new_context raises and the process ends with the exception
ProcessNewContext(w, ok) ==
    /\ strategy = "process"
    /\ w \in 1..Len(workers)
    /\ workers[w] = "new_context"
    /\ IF ok
       THEN /\ owners' = [owners EXCEPT ![w].contexts = Append(@, "open")]
            /\ workers' = [workers EXCEPT ![w] =
                              IF Len(owners[w].contexts) + 1 = MaxContexts
                              THEN "gather" ELSE "new_context"]
       ELSE /\ workers' = [workers EXCEPT ![w] = "raised"]
            /\ UNCHANGED owners
    /\ UNCHANGED <<url_list, config_num_processes, strategy, url_chunks, orch_pc,
                   orch_error>>
    /\ UNCHANGED not_orchestrator

\* a worker process: gather returns the records of the batch, or a per-URL
\* task raised in its switch branch and the process ends with the exception
ProcessGathers(w, ok) ==
    /\ strategy = "process"
    /\ w \in 1..Len(workers)
    /\ workers[w] = "gather"
    /\ workers' = [workers EXCEPT ![w] = IF ok THEN "cleanup" ELSE "raised"]
    /\ UNCHANGED <<url_list, config_num_processes, strategy, url_chunks, orch_pc,
                   orch_error, owners>>
    /\ UNCHANGED not_orchestrator

\* a worker process: _cleanup_resources closes the contexts and the browser
\* and stops playwright; the process returns
CleanupResources(w) ==
    /\ strategy = "process"
    /\ w \in 1..Len(workers)
    /\ workers[w] = "cleanup"
    /\ owners' = [owners EXCEPT ![w] = StopPlaywright(@)]
    /\ workers' = [workers EXCEPT ![w] = "returned"]
    /\ UNCHANGED <<url_list, config_num_processes, strategy, url_chunks, orch_pc,
                   orch_error>>
    /\ UNCHANGED not_orchestrator

\* process strategy: every process was joined; execute_tasks returns the
\* records the processes appended
JoinProcesses ==
    /\ strategy = "process"
    /\ orch_pc = "join"
    /\ \A w \in 1..Len(workers) : workers[w] \in {"returned", "raised"}
    /\ orch_pc' = "returned"
    /\ UNCHANGED <<url_list, config_num_processes, strategy, url_chunks, orch_error,
                   owners, workers>>
    /\ UNCHANGED not_orchestrator

OrchestratorNext ==
    \/ CreateTasks
    \/ StartPlaywright
    \/ \E ok \in BOOLEAN : LaunchBrowser(ok)
    \/ \E ok \in BOOLEAN : NewContext(ok)
    \/ \E w \in 1..MaxOrchProcesses, ok \in BOOLEAN : ThreadWorkerEnds(w, ok)
    \/ BrowserClose
    \/ StartProcesses
    \/ \E w \in 1..MaxOrchProcesses : ProcessStartsPlaywright(w)
    \/ \E w \in 1..MaxOrchProcesses, ok \in BOOLEAN : ProcessLaunchesBrowser(w, ok)
    \/ \E w \in 1..MaxOrchProcesses, ok \in BOOLEAN : ProcessNewContext(w, ok)
    \/ \E w \in 1..MaxOrchProcesses, ok \in BOOLEAN : ProcessGathers(w, ok)
    \/ \E w \in 1..MaxOrchProcesses : CleanupResources(w)
    \/ JoinProcesses

SpecOrchestrator == OrchestratorInit /\ [][OrchestratorNext]_vars

\* the batches one after the other
RECURSIVE Concat(_)
Concat(chunks) ==
    IF chunks = <<>> THEN <<>> ELSE Head(chunks) \o Concat(Tail(chunks))

C19_TeardownOnEveryExit ==
    orch_pc \in {"returned", "raised"} =>
        \A o \in 1..Len(owners) :
            /\ owners[o].browser # "open"
            /\ \A k \in 1..Len(owners[o].contexts) : owners[o].contexts[k] = "closed"

(***************************************************************************)
(* The pipeline, cian.py parse_data, from the load of the persisted        *)
(* dataset on: the search merge, the listing pages and their merge, each   *)
(* merge followed by validate_merge, and the save.                         *)
(***************************************************************************)

\* length of the batches the scrapes of a pipeline run hand over
MaxPipelineBatch == 1

PipelineBatches == UNION {[1..n -> SourceRecords] : n \in 0..MaxPipelineBatch}

\* normalize_listings over a list of records
NormalizeAll(batch) == [k \in 1..Len(batch) |-> normalize_listings(batch[k])]

\* validate_merge raises unless (a) every offer_id of the target and of the
\* source is in the merged result, (b) no listing's price_changes got
\* shorter, (c) the merged result is no smaller than the target and than the
\* number of distinct ids of the source
ValidateMergeRaises(original, source, merged) ==
    ~ /\ (OfferIdsOf(original) \cup OfferIdsOf(source)) \subseteq OfferIdsOf(merged)
      /\ \A id \in OfferIdsOf(original) \cap OfferIdsOf(merged) :
            Len(ChangesOf(OfferOf(merged, id))) >= Len(ChangesOf(OfferOf(original, id)))
      /\ Len(merged) >= Len(original)
      /\ Len(merged) >= Cardinality(OfferIdsOf(source))

\* where parse_data stands after a call of merge_and_validate: the exception
\* of validate_merge is not caught
AfterValidation_Swallowed(raises, next_pc) == next_pc

AfterValidation(raises, next_pc) == IF raises THEN "raised" ELSE next_pc

\* listing.get("metadata", {}).get("is_unpublished", default)
IsUnpublishedOr(listing, default) ==
    IF "is_unpublished" \in DOMAIN MetadataOf(listing)
    THEN Truthy(MetadataOf(listing)["is_unpublished"])
    ELSE default

\* the offer_ids of the listings of a list that are not unpublished
ActiveOfferIds(listings) ==
    {listings[k]["offer_id"] : k \in {j \in 1..Len(listings) :
                                        ~IsUnpublishedOr(listings[j], FALSE)}}

\* the records of a list whose offer_id is not in ids
WithoutOffers(listings, ids) ==
    SelectSeq(listings, LAMBDA l : Get(l, "offer_id") \notin ids)

PipelineInit ==
    /\ MergeIdle
    /\ WorkerIdle
    /\ RetryIdle
    /\ OrchestratorIdle
    /\ CountersIdle
    /\ DeepMergeIdle
    /\ ProcessIdle
    /\ json_file \in InitialTargets
    /\ existing_listings = json_file
    /\ merged_data = <<>>
    /\ missing_offer_ids = {}
    /\ listings_to_scrape = {}
    /\ parse_pc = "search_merge"
    /\ merges = 0
    /\ validated = 0
    /\ save_calls = 0

\* phases 3 and 4: the search results are normalized and merged into the
\* loaded dataset, whose listings merge_data updates in place, and
\* validate_merge returns or raises; then the listings to scrape are the
\* new ones and the active ones the search did not show
SearchMerge(listings_in_search) ==
    /\ parse_pc = "search_merge"
    /\ LET new_offer_ids == NormalizeAll(NormalizeAll(listings_in_search))
           merged == merge_data(existing_listings, new_offer_ids)
           raises == ValidateMergeRaises(existing_listings, new_offer_ids, merged)
           updated == SubSeq(merged, 1, Len(existing_listings))
           existing_active_offer_ids == ActiveOfferIds(updated)
           offer_ids_in_search == OfferIdsOf(listings_in_search)
           to_scrape == (offer_ids_in_search \ existing_active_offer_ids)
                            \cup (existing_active_offer_ids \ offer_ids_in_search)
       IN /\ merges' = merges + 1
          /\ validated' = IF raises THEN validated ELSE validated + 1
          /\ merged_data' = IF raises THEN merged_data ELSE merged
          /\ existing_listings' = updated
          /\ missing_offer_ids' = IF raises THEN {}
                                  ELSE existing_active_offer_ids \ offer_ids_in_search
          /\ listings_to_scrape' = IF raises THEN {} ELSE to_scrape
          /\ parse_pc' = AfterValidation(raises,
                            IF to_scrape # {} THEN "listing_pages" ELSE "save")
    /\ UNCHANGED <<json_file, save_calls>>
    /\ UNCHANGED not_pipeline

\* phase 5: the listing pages were scraped; with no record nothing is
\* merged, else the listings missing from the search and found active are
\* removed, the records are normalized and merged, and validate_merge
\* returns or raises
ListingPages(parsed_listings) ==
    /\ parse_pc = "listing_pages"
    /\ OfferIdsOf(parsed_listings) \subseteq listings_to_scrape
    /\ IF parsed_listings = <<>>
       THEN /\ parse_pc' = "save"
            /\ UNCHANGED <<merged_data, merges, validated>>
       ELSE LET missing_active_listings ==
                    {parsed_listings[k]["offer_id"] :
                        k \in {j \in 1..Len(parsed_listings) :
                                 /\ parsed_listings[j]["offer_id"] \in missing_offer_ids
                                 /\ ~IsUnpublishedOr(parsed_listings[j], TRUE)}}
                target == WithoutOffers(merged_data, missing_active_listings)
                source == NormalizeAll(NormalizeAll(
                              WithoutOffers(parsed_listings, missing_active_listings)))
                merged == merge_data(target, source)
                raises == ValidateMergeRaises(target, source, merged)
            IN /\ merges' = merges + 1
               /\ validated' = IF raises THEN validated ELSE validated + 1
               /\ merged_data' = IF raises THEN target ELSE merged
               /\ parse_pc' = AfterValidation(raises, "save")
    /\ UNCHANGED <<json_file, existing_listings, missing_offer_ids,
                   listings_to_scrape, save_calls>>
    /\ UNCHANGED not_pipeline

\* save_json_file(merged_data, json_file_path), and parse_data returns
SaveJsonFile ==
    /\ parse_pc = "save"
    /\ json_file' = merged_data
    /\ save_calls' = save_calls + 1
    /\ parse_pc' = "returned"
    /\ UNCHANGED <<existing_listings, merged_data, missing_offer_ids,
                   listings_to_scrape, merges, validated>>
    /\ UNCHANGED not_pipeline

PipelineNext ==
    \/ \E listings_in_search \in PipelineBatches : SearchMerge(listings_in_search)
    \/ \E parsed_listings \in PipelineBatches : ListingPages(parsed_listings)
    \/ SaveJsonFile

SpecPipeline == PipelineInit /\ [][PipelineNext]_vars

\* C18: the dataset is saved only after every merge of the run has passed
\* validate_merge; when validate_merge raises, after the search merge or
\* after the parsed-listing merge, parse_data raises, no later merge and no
\* save happens, and the persisted dataset is what it was
C18_SavedOnlyAfterValidation ==
    /\ save_calls > 0 => validated = merges
    /\ validated < merges =>
          /\ parse_pc = "raised"
          /\ merges = validated + 1
          /\ save_calls = 0
          /\ json_file \in InitialTargets
    /\ parse_pc = "returned" => save_calls = 1 /\ json_file = merged_data

\* validate_merge raised after the parsed-listing merge, the search merge
\* having passed
C18_Witness ==
    /\ parse_pc = "raised"
    /\ merges = 2
    /\ validated = 1

(***************************************************************************)
(* The shared counters.  The workers of an invocation, processes of the    *)
(* process strategy or tasks of the thread strategy, call log_with_lock    *)
(* concurrently; a call takes the lock of counters[status], reads the      *)
(* value, writes the value plus one, and leaves the lock.                  *)
(***************************************************************************)
MaxLogWorkers == 2

\* calls of log_with_lock a worker makes
MaxLogCalls == 2

LogWorkers == 1..MaxLogWorkers

\* with counters[status].get_lock() blocks while another worker holds the lock
LockFree_NoLock(status) == TRUE

LockFree(status) == counter_lock[status] = 0

CountersInit ==
    /\ MergeIdle
    /\ WorkerIdle
    /\ RetryIdle
    /\ OrchestratorIdle
    /\ PipelineIdle
    /\ DeepMergeIdle
    /\ ProcessIdle
    /\ counter_value = [status \in Statuses |-> 0]
    /\ counter_lock = [status \in Statuses |-> 0]
    /\ log_pc = [w \in LogWorkers |-> "idle"]
    /\ log_status = [w \in LogWorkers |-> "start"]
    /\ log_read = [w \in LogWorkers |-> 0]
    /\ log_calls = [w \in LogWorkers |-> 0]
    /\ increments = [status \in Statuses |-> 0]

\* a worker calls log_with_lock(process_id, status, counters, ...)
LogWithLock(w, status) ==
    /\ log_pc[w] = "idle"
    /\ log_calls[w] < MaxLogCalls
    /\ log_status' = [log_status EXCEPT ![w] = status]
    /\ log_calls' = [log_calls EXCEPT ![w] = @ + 1]
    /\ log_pc' = [log_pc EXCEPT ![w] = "get_lock"]
    /\ UNCHANGED <<counter_value, counter_lock, log_read, increments>>
    /\ UNCHANGED not_counters

\* with counters[status].get_lock(): the lock is taken
AcquireLock(w) ==
    /\ log_pc[w] = "get_lock"
    /\ LockFree(log_status[w])
    /\ counter_lock' = [counter_lock EXCEPT ![log_status[w]] = w]
    /\ log_pc' = [log_pc EXCEPT ![w] = "read"]
    /\ UNCHANGED <<counter_value, log_status, log_read, log_calls, increments>>
    /\ UNCHANGED not_counters

\* counters[status].value += 1, the read
ReadValue(w) ==
    /\ log_pc[w] = "read"
    /\ log_read' = [log_read EXCEPT ![w] = counter_value[log_status[w]]]
    /\ log_pc' = [log_pc EXCEPT ![w] = "write"]
    /\ UNCHANGED <<counter_value, counter_lock, log_status, log_calls, increments>>
    /\ UNCHANGED not_counters

\* counters[status].value += 1, the write
WriteValue(w) ==
    /\ log_pc[w] = "write"
    /\ counter_value' = [counter_value EXCEPT ![log_status[w]] = log_read[w] + 1]
    /\ increments' = [increments EXCEPT ![log_status[w]] = @ + 1]
    /\ log_read' = [log_read EXCEPT ![w] = 0]
    /\ log_pc' = [log_pc EXCEPT ![w] = "release"]
    /\ UNCHANGED <<counter_lock, log_status, log_calls>>
    /\ UNCHANGED not_counters

\* the message is built from the other counters and the with block is left
ReleaseLock(w) ==
    /\ log_pc[w] = "release"
    /\ counter_lock' = [counter_lock EXCEPT ![log_status[w]] = 0]
    /\ log_pc' = [log_pc EXCEPT ![w] = "idle"]
    /\ UNCHANGED <<counter_value, log_status, log_read, log_calls, increments>>
    /\ UNCHANGED not_counters

CountersNext ==
    \/ \E w \in LogWorkers, status \in Statuses : LogWithLock(w, status)
    \/ \E w \in LogWorkers : AcquireLock(w)
    \/ \E w \in LogWorkers : ReadValue(w)
    \/ \E w \in LogWorkers : WriteValue(w)
    \/ \E w \in LogWorkers : ReleaseLock(w)

SpecCounters == CountersInit /\ [][CountersNext]_vars

\* the workers that are between taking and leaving the lock of a counter
InLock(status) ==
    {w \in LogWorkers : log_status[w] = status /\ log_pc[w] \in {"read", "write", "release"}}

\* at most one worker is inside the lock of a counter, it is the holder,
\* and the counter's value is the number of increments performed on it
CountersConsistent ==
    \A status \in Statuses :
        /\ Cardinality(InLock(status)) <= 1
        /\ \A w \in InLock(status) : counter_lock[status] = w
        /\ counter_value[status] = increments[status]

\* C20: every increment of a shared counter is a read-modify-write made
\* under that counter's lock; under any interleaving of the workers, no step
\* decreases a counter and after every step its value is the number of
\* increments performed on it
C20_NoLostUpdate ==
    [][/\ CountersConsistent'
       /\ \A status \in Statuses : counter_value'[status] >= counter_value[status]]_vars

\* two workers have incremented the same counter, the second having waited
\* for the lock while the first held it
C20_Witness ==
    \E status \in Statuses, w1, w2 \in LogWorkers :
        /\ w1 # w2
        /\ counter_value[status] >= 1
        /\ log_status[w1] = status /\ log_pc[w1] = "get_lock"
        /\ log_status[w2] = status /\ log_pc[w2] = "write"

(***************************************************************************)
(* deep_merge on one listing: the records of one offer_id merged onto the  *)
(* listing one after the other, as merge_data does for an item whose       *)
(* offer_id the target holds.                                              *)
(***************************************************************************)
MaxDeepMerges == 3

Address == Str("Moskva, Tverskaya ul., 1")

\* a persisted listing with its address
WithAddress(listing) == Put(listing, "geo", Dict([address |-> Address]))

\* the listings of offer 2: published, published with a price history,
\* unpublished
ExistingRecords ==
    {WithAddress(MkListing("2", PyInt(1000), PyBool(FALSE), Str(""), <<>>)),
     WithAddress(MkListing("2", PyInt(1000), PyBool(FALSE), Str(""),
                           <<PriceChangeEntry(PyInt(1000), PyInt(1200), D0)>>)),
     WithAddress(MkListing("2", PyInt(1200), PyBool(TRUE), D0, <<>>))}

\* the records of offer 2 a scrape hands to the merge, normalized: with a
\* null price, with a null address, with a null is_unpublished, and with no
\* null at all
NewRecords ==
    {normalize_listings(offer) : offer \in
        {MkRecord("2", None, PyBool(FALSE), D1),
         Put(MkRecord("2", PyInt(1000), PyBool(FALSE), D1), "geo",
             Dict([address |-> None])),
         MkRecord("2", PyInt(1200), None, D1),
         MkRecord("2", PyInt(1200), PyBool(TRUE), D2),
         MkRecord("2", PyInt(1200), PyBool(FALSE), D2),
         Put(MkRecord("2", Absent, Absent, None), "geo",
             Dict([address |-> Str("Moskva, Arbat ul., 2")]))}}

DeepMergeInit ==
    /\ MergeIdle
    /\ WorkerIdle
    /\ RetryIdle
    /\ OrchestratorIdle
    /\ PipelineIdle
    /\ CountersIdle
    /\ ProcessIdle
    /\ existing_record \in ExistingRecords
    /\ new_record = <<>>
    /\ deep_merges = 0

\* deep_merge(target_by_id[offer_id], item, is_new_offer=False)
DeepMerge(item) ==
    /\ deep_merges < MaxDeepMerges
    /\ item["offer_id"] = existing_record["offer_id"]
    /\ existing_record' = deep_merge(existing_record, item, FALSE)
    /\ new_record' = item
    /\ deep_merges' = deep_merges + 1
    /\ UNCHANGED not_deep_merge

DeepMergeNext == \E item \in NewRecords : DeepMerge(item)

SpecDeepMerge == DeepMergeInit /\ [][DeepMergeNext]_vars

\* a key of the source whose value is None changed a non-null value of the
\* existing record, at this level or in a dict below it
RECURSIVE NoneOverwrote(_, _, _)
NoneOverwrote(e, n, r) ==
    \E k \in DOMAIN n \cap DOMAIN e :
        IF n[k] = None
        THEN e[k] # None /\ (k \notin DOMAIN r \/ r[k] # e[k])
        ELSE /\ IsDict(n[k]) /\ IsDict(e[k])
             /\ k \in DOMAIN r /\ IsDict(r[k])
             /\ NoneOverwrote(e[k].d, n[k].d, r[k].d)

\* C24 as stated: a None value of a source record never overwrites a
\* non-null value of the existing listing, for every field at every nesting
\* level, metadata included
C24_NoneNeverOverwrites ==
    [][deep_merges' = deep_merges + 1 =>
          ~NoneOverwrote(existing_record, new_record', existing_record')]_vars

(***************************************************************************)
(* scraper/process_scraper.py: one worker process.  _scrape_batch runs a   *)
(* scrape_with_proxy_switching task per URL; each calls _scrape_single_url *)
(* and, in its own except branch, counts network errors in proxy_state and *)
(* switches the proxy at the threshold.                                    *)
(***************************************************************************)
MaxProcUrls == 3

\* proxy_state["error_threshold"]
error_threshold == 3

\* lines 81-89: the patterns of the process worker
process_network_error_patterns ==
    {"ERR_CONNECTION_CLOSED", "ERR_PROXY_CONNECTION_FAILED",
     "ERR_TUNNEL_CONNECTION_FAILED", "ERR_SOCKS_CONNECTION_FAILED",
     "ERR_CONNECTION_RESET", "ERR_CONNECTION_REFUSED",
     "ERR_NAME_NOT_RESOLVED"}

\* lines 91-93: any(pattern in error_str for pattern in network_error_patterns)
IsProcessNetworkError(error_str) ==
    \E pattern \in process_network_error_patterns : Contains(error_str, pattern)

\* the exception of page.close() on a page that is gone
PageCloseErrorStr == <<"Page.close:", "Target", "closed">>

ProcTasks == 1..Len(proc_urls)

ProcessInit ==
    /\ MergeIdle
    /\ WorkerIdle
    /\ RetryIdle
    /\ OrchestratorIdle
    /\ PipelineIdle
    /\ CountersIdle
    /\ DeepMergeIdle
    /\ \E n \in 1..MaxProcUrls : proc_urls = [i \in 1..n |-> Url(i)]
    /\ proc_vpn_manager \in BOOLEAN
    /\ proc_semaphore \in 1..MaxContexts
    /\ proxy_state = [consecutive_errors |-> 0, contexts |-> 1]
    /\ proc_pc = [i \in ProcTasks |-> "semaphore"]
    /\ proc_result = [i \in ProcTasks |-> NoResult]
    /\ proc_calls = [refresh |-> 0, get_proxy |-> 0]
    /\ proc_streak = 0
    /\ batch_pc = "running"

\* _scrape_single_url: async with semaphore, the delay, a fresh page of the
\* task's context, the start log; page.goto is under way
ProcEnter(i) ==
    /\ batch_pc = "running"
    /\ i \in ProcTasks
    /\ proc_pc[i] = "semaphore"
    /\ proc_semaphore > 0
    /\ proc_semaphore' = proc_semaphore - 1
    /\ proc_pc' = [proc_pc EXCEPT ![i] = "fetch"]
    /\ UNCHANGED <<proc_urls, proc_vpn_manager, proxy_state, proc_result,
                   proc_calls, proc_streak, batch_pc>>
    /\ UNCHANGED not_process

\* goto and evaluate succeeded: the record and the success log; the finally
\* clause is next
ProcFetchSucceeds(i) ==
    /\ batch_pc = "running"
    /\ i \in ProcTasks
    /\ proc_pc[i] = "fetch"
    /\ proc_result' = [proc_result EXCEPT ![i] =
                          [url |-> proc_urls[i], status |-> "success",
                           error |-> <<>>, proxy_switched |-> FALSE]]
    /\ proc_pc' = [proc_pc EXCEPT ![i] = "close"]
    /\ UNCHANGED <<proc_urls, proc_vpn_manager, proc_semaphore, proxy_state,
                   proc_calls, proc_streak, batch_pc>>
    /\ UNCHANGED not_process

\* goto or evaluate raised: the except of _scrape_single_url (lines 219-232)
\* makes the error record, logs the error and returns the record
ProcFetchFails(i, error_str) ==
    /\ batch_pc = "running"
    /\ i \in ProcTasks
    /\ proc_pc[i] = "fetch"
    /\ proc_result' = [proc_result EXCEPT ![i] =
                          [url |-> proc_urls[i], status |-> "error",
                           error |-> error_str, proxy_switched |-> FALSE]]
    /\ proc_pc' = [proc_pc EXCEPT ![i] = "close"]
    /\ UNCHANGED <<proc_urls, proc_vpn_manager, proc_semaphore, proxy_state,
                   proc_calls, proc_streak, batch_pc>>
    /\ UNCHANGED not_process

\* finally: page.close() returns, _scrape_single_url returns its record,
\* success or error, and scrape_with_proxy_switching takes the return as a
\* success: consecutive_errors = 0 under the lock, return result
ProcClosePage(i) ==
    /\ batch_pc = "running"
    /\ i \in ProcTasks
    /\ proc_pc[i] = "close"
    /\ proc_semaphore' = proc_semaphore + 1
    /\ proxy_state' = [proxy_state EXCEPT !.consecutive_errors = 0]
    /\ proc_streak' = IF IsProcessNetworkError(proc_result[i].error)
                      THEN proc_streak + 1 ELSE 0
    /\ proc_pc' = [proc_pc EXCEPT ![i] = "done"]
    /\ UNCHANGED <<proc_urls, proc_vpn_manager, proc_result, proc_calls, batch_pc>>
    /\ UNCHANGED not_process

\* finally: page.close() raises, which is the one exception that leaves
\* _scrape_single_url; the except branch of scrape_with_proxy_switching
\* (lines 77-125) handles it: count, switch at the threshold and retry the
\* URL, or return the error record
ProcCloseRaises(i, speed_test) ==
    /\ batch_pc = "running"
    /\ i \in ProcTasks
    /\ proc_pc[i] = "close"
    /\ proc_semaphore' = proc_semaphore + 1
    /\ LET error_str == PageCloseErrorStr
           is_network_error == IsProcessNetworkError(error_str)
           count == proxy_state.consecutive_errors + 1
       IN IF is_network_error /\ proc_vpn_manager
          THEN IF count >= error_threshold
               THEN IF speed_test = "raises"
                    THEN /\ proc_calls' = [proc_calls EXCEPT !.refresh = @ + 1]
                         /\ proxy_state' = [proxy_state EXCEPT !.consecutive_errors = count]
                         /\ proc_pc' = [proc_pc EXCEPT ![i] = "refresh_raised"]
                         /\ batch_pc' = "raised"
                         /\ UNCHANGED <<proc_result, proc_streak>>
                    ELSE /\ proc_calls' = [refresh |-> proc_calls.refresh + 1,
                                           get_proxy |-> proc_calls.get_proxy + 1]
                         /\ proxy_state' = [consecutive_errors |-> 0,
                                            contexts |-> proxy_state.contexts + 1]
                         /\ proc_pc' = [proc_pc EXCEPT ![i] = "semaphore"]
                         /\ proc_streak' = 0
                         /\ UNCHANGED <<proc_result, batch_pc>>
               ELSE /\ proxy_state' = [proxy_state EXCEPT !.consecutive_errors = count]
                    /\ proc_result' = [proc_result EXCEPT ![i] =
                                          [url |-> proc_urls[i], status |-> "error",
                                           error |-> error_str, proxy_switched |-> FALSE]]
                    /\ proc_streak' = proc_streak + 1
                    /\ proc_pc' = [proc_pc EXCEPT ![i] = "done"]
                    /\ UNCHANGED <<proc_calls, batch_pc>>
          ELSE /\ proc_result' = [proc_result EXCEPT ![i] =
                                     [url |-> proc_urls[i], status |-> "error",
                                      error |-> error_str, proxy_switched |-> FALSE]]
               /\ proc_streak' = IF IsProcessNetworkError(proc_result[i].error)
                                 THEN proc_streak + 1 ELSE 0
               /\ proc_pc' = [proc_pc EXCEPT ![i] = "done"]
               /\ UNCHANGED <<proxy_state, proc_calls, batch_pc>>
    /\ UNCHANGED <<proc_urls, proc_vpn_manager>>
    /\ UNCHANGED not_process

\* every task returned: gather returns, the resources are cleaned up and
\* _scrape_batch returns the records
ProcGather ==
    /\ batch_pc = "running"
    /\ \A i \in ProcTasks : proc_pc[i] = "done"
    /\ batch_pc' = "returned"
    /\ UNCHANGED <<proc_urls, proc_vpn_manager, proc_semaphore, proxy_state,
                   proc_pc, proc_result, proc_calls, proc_streak>>
    /\ UNCHANGED not_process

ProcessNext ==
    \/ \E i \in 1..MaxProcUrls : ProcEnter(i)
    \/ \E i \in 1..MaxProcUrls : ProcFetchSucceeds(i)
    \/ \E i \in 1..MaxProcUrls : \E error_str \in FetchErrors : ProcFetchFails(i, error_str)
    \/ \E i \in 1..MaxProcUrls : ProcClosePage(i)
    \/ \E i \in 1..MaxProcUrls : \E speed_test \in run_speed_test : ProcCloseRaises(i, speed_test)
    \/ ProcGather

SpecProcess == ProcessInit /\ [][ProcessNext]_vars

\* C26 as stated: in a worker process with a provider every
\* network-classified failure of a URL fetch adds one to
\* proxy_state["consecutive_errors"], and the third in a row makes the worker
\* switch: the servers are re-tested, the count goes back to 0
C26_NetworkFailuresCounted ==
    proc_vpn_manager =>
        /\ proc_calls.refresh = 0 => proxy_state.consecutive_errors = proc_streak
        /\ proc_streak >= error_threshold => proc_calls.refresh >= 1

====
